---- MODULE Spec2Model ----
(***************************************************************************)
(* A model of the DevEase analysis pipeline: the smell detector            *)
(* (code_smell_detector.py), the quality scorer (code_quality_metrics.py), *)
(* the technical debt calculator (technical_debt_calculator.py) and the    *)
(* composite calls that chain them (parsing.py, feature_router.py).        *)
(*                                                                         *)
(* Numbers.  The Python code computes in binary floating point.  The model *)
(* computes the same expressions exactly, as integers over a stated unit:  *)
(*   - a quality sub-score before rounding is an integer count of          *)
(*     1/Den(total_lines) points;                                          *)
(*   - a reported quality score (round(x, 1)) is an integer count of       *)
(*     tenths of a point;                                                  *)
(*   - a debt value before rounding is an integer count of 1/DebtUnit      *)
(*     points, and a reported one (round(x, 2)) a count of hundredths.     *)
(* round() gives the nearest such count; where the exact value lies half   *)
(* way between two, the model allows both.                                 *)
(***************************************************************************)
EXTENDS Integers, Sequences, FiniteSets, TLC

VARIABLES qa, td, sd, rt, dp, cp, api

vars == <<qa, td, sd, rt, dp, cp, api>>

(***************************************************************************)
(* Arithmetic helpers                                                      *)
(***************************************************************************)
Min(a, b) == IF a <= b THEN a ELSE b

Max(a, b) == IF a >= b THEN a ELSE b

\* round(n / d) to the nearest integer (d > 0), as the set of results the
\* floating-point computation can give: the nearest integer, and either
\* neighbour when n / d lies exactly half way (there the float's last bit,
\* which the exact value does not fix, decides)
RoundDiv(n, d) ==
    LET q == n \div d
        r == n % d
    IN  IF 2 * r < d THEN {q}
        ELSE IF 2 * r > d THEN {q + 1}
        ELSE {q, q + 1}

RECURSIVE SumSeq(_)
SumSeq(s) ==
    IF s = <<>> THEN 0
    ELSE IF Len(s) = 1 THEN s[1]
    ELSE SumSeq(SubSeq(s, 1, Len(s) \div 2)) + SumSeq(SubSeq(s, Len(s) \div 2 + 1, Len(s)))

Repeat(x, n) == [i \in 1..n |-> x]

(***************************************************************************)
(* Findings and their summary (CodeSmell, get_smell_summary)               *)
(***************************************************************************)
Severities == {"critical", "high", "medium", "low"}

\* CodeSmell(smell_type, severity, description, line_number, suggestion);
\* the description is kept as the number it prints (n), the suggestion is a
\* constant of the rule and is left out.
CodeSmell(t, sev, n, line) == [type |-> t, severity |-> sev, n |-> n, line |-> line]

\* get_smell_summary: totals by severity and by type, and the list itself
get_smell_summary(smells) ==
    [ total_smells |-> Len(smells),
      by_severity  |-> [sv \in Severities |->
                          Cardinality({i \in 1..Len(smells) : smells[i].severity = sv})],
      by_type      |-> [t \in {smells[i].type : i \in 1..Len(smells)} |->
                          Cardinality({i \in 1..Len(smells) : smells[i].type = t})],
      smells       |-> smells ]

\* dict.get(key, default) on by_type / by_severity
Get(d, k, default) == IF k \in DOMAIN d THEN d[k] ELSE default

(***************************************************************************)
(* Text lines as the quality scorer reads them.  A line is the record of   *)
(* what the scorer's string tests return on it.                            *)
(***************************************************************************)
\* "total = total + 1"
LineCode == [ long |-> FALSE, blank |-> FALSE, indent |-> 0, tab |-> FALSE, space0 |-> FALSE,
              eq |-> TRUE, hash |-> FALSE, single |-> FALSE, hasFor |-> FALSE,
              opjoin |-> FALSE, dbl |-> FALSE, indicators |-> 0, opens |-> 0, closes |-> 0,
              delim |-> "none", delims |-> 0, slashes |-> FALSE, block |-> FALSE, star |-> FALSE ]

\* the lines the scored files are made of:
\*   "total = total + 1"
\*   "if a and b or c:"    ('if ', 'and ', 'or ' once each)
\*   "for i in items:"     ('for ' once, and 'or ' once inside it)
\*   "# note"
\*   a lone triple double quote
\*   a statement of more than 120 characters, "value = call(....)"
\*   "    x=1"             (four leading spaces)
\*   "<TAB>f(g(h(i(j("
LineKinds ==
    { LineCode,
      [LineCode EXCEPT !.eq = FALSE, !.indicators = 3],
      [LineCode EXCEPT !.eq = FALSE, !.hasFor = TRUE, !.indicators = 2],
      [LineCode EXCEPT !.eq = FALSE, !.hash = TRUE],
      [LineCode EXCEPT !.eq = FALSE, !.delim = "dq", !.delims = 1],
      [LineCode EXCEPT !.long = TRUE, !.opens = 1, !.closes = 1],
      [LineCode EXCEPT !.indent = 4, !.space0 = TRUE, !.single = TRUE,
                       !.opjoin = TRUE, !.dbl = TRUE],
      [LineCode EXCEPT !.eq = FALSE, !.indent = 1, !.tab = TRUE, !.opens = 5] }

\* the files read by analyze_file: up to MaxRuns runs of one line repeated
\* once or MaxRepeat times, files of 1 or 3 comment lines ahead of
\* statements, with comment ratios on and beside 1/5, 3/20, 1/10, 1/20, 1/50,
\* and files of a tab-indented line and 10 or 12 lines "  ...  x=1  ..." of
\* more than 120 characters, indented by 1 to 6 spaces in turn
MaxRuns == 2

MaxRepeat == 7

Runs == [line : LineKinds, times : {1, MaxRepeat}]

RECURSIVE Expand(_)
Expand(runs) ==
    IF runs = <<>> THEN <<>>
    ELSE IF Len(runs) = 1 THEN Repeat(runs[1].line, runs[1].times)
    ELSE Expand(SubSeq(runs, 1, Len(runs) \div 2))
         \o Expand(SubSeq(runs, Len(runs) \div 2 + 1, Len(runs)))

TextFiles ==
    {Expand(r) : r \in UNION {[1..n -> Runs] : n \in 0..MaxRuns}}
    \cup { Repeat([LineCode EXCEPT !.eq = FALSE, !.hash = TRUE], c[1]) \o Repeat(LineCode, c[2])
           : c \in { <<1, 4>>, <<1, 5>>, <<3, 17>>, <<3, 18>>, <<1, 9>>, <<1, 10>>,
                     <<1, 19>>, <<1, 20>>, <<1, 49>>, <<1, 50>> } }
    \cup { <<[LineCode EXCEPT !.eq = FALSE, !.indent = 1, !.tab = TRUE, !.opens = 5]>>
           \o [i \in 1..n |-> [LineCode EXCEPT !.long = TRUE, !.indent = 1 + (i % 6),
                                                !.space0 = TRUE, !.single = TRUE,
                                                !.opjoin = TRUE, !.dbl = TRUE]]
           : n \in {10, 12} }

(***************************************************************************)
(* CodeQualityAnalyzer                                                     *)
(***************************************************************************)
\* the unit of a sub-score before rounding: 1/Den(total_lines) of a point
\* (ratios over total_lines, and the steps 1.5 and 0.5, are whole in it)
Den(total_lines) == IF total_lines = 0 THEN 2 ELSE 2 * total_lines

\* max(0, min(100, base_score)), in units of 1/den
Clamp100(x, den) == Max(0, Min(100 * den, x))

_calculate_maintainability_score(smell_summary, den) ==
    LET by_type == smell_summary.by_type
        base_score == 100 - Get(by_type, "duplicate_code", 0) * 8
                          - Get(by_type, "long_function", 0) * 6
                          - Get(by_type, "god_class", 0) * 12
                          - Get(by_type, "dead_code", 0) * 4
    IN  Clamp100(base_score * den, den)

_check_indentation_consistency(lines) ==
    LET NonBlank == {i \in 1..Len(lines) : ~lines[i].blank}
        indentations == {lines[i].indent : i \in {j \in NonBlank : lines[j].indent > 0}}
        has_tabs == \E i \in NonBlank : lines[i].tab
        has_spaces == \E i \in NonBlank : lines[i].space0
    IN  IF indentations = {} THEN 0
        ELSE (IF has_tabs /\ has_spaces THEN 1 ELSE 0)
             + (IF Cardinality(indentations) > 5 THEN 1 ELSE 0)

\* single-letter assignment targets with no 'for ' on the line or the two before
_check_naming_conventions(lines) ==
    LET Issue(i) == /\ lines[i].eq
                    /\ ~lines[i].hash
                    /\ lines[i].single
                    /\ ~\E j \in Max(1, i - 2)..i : lines[j].hasFor
    IN  Cardinality({i \in 1..Len(lines) : Issue(i)})

_check_spacing_issues(lines) ==
    Cardinality({i \in 1..Len(lines) : lines[i].opjoin})
    + Cardinality({i \in 1..Len(lines) : lines[i].dbl /\ ~lines[i].hash})

\* (a variant without the cap on the naming deduction)
_calculate_readability_score_NamingUncapped(lines, den) ==
    LET total_lines == Len(lines)
        long_lines == Cardinality({i \in 1..Len(lines) : lines[i].long})
        long_pen == IF long_lines > 0 /\ total_lines > 0
                    THEN Min(15 * den, long_lines * 30 * 2) ELSE 0
        indent_pen == Min(10, _check_indentation_consistency(lines) * 5) * den
        naming_pen == (_check_naming_conventions(lines) * 3 * den) \div 2
        spacing_pen == Min(10 * den, (_check_spacing_issues(lines) * den) \div 2)
    IN  Clamp100(100 * den - long_pen - indent_pen - naming_pen - spacing_pen, den)

_calculate_readability_score(lines, den) ==
    LET total_lines == Len(lines)
        long_lines == Cardinality({i \in 1..Len(lines) : lines[i].long})
        \* min(15, long_line_ratio * 30); den / total_lines = 2
        long_pen == IF long_lines > 0 /\ total_lines > 0
                    THEN Min(15 * den, long_lines * 30 * 2) ELSE 0
        indent_pen == Min(10, _check_indentation_consistency(lines) * 5) * den
        \* min(15, naming_issues * 1.5) and min(10, spacing_issues * 0.5)
        naming_pen == Min(15 * den, (_check_naming_conventions(lines) * 3 * den) \div 2)
        spacing_pen == Min(10 * den, (_check_spacing_issues(lines) * den) \div 2)
    IN  Clamp100(100 * den - long_pen - indent_pen - naming_pen - spacing_pen, den)

\* the loop of _calculate_max_nesting over the lines lo..hi: the nesting
\* behind the last line read and the largest seen
RECURSIVE NestingScan(_, _, _, _, _)
NestingScan(lines, lo, hi, current, best) ==
    IF lo > hi THEN [current |-> current, best |-> best]
    ELSE IF lo = hi
    THEN IF ~lines[lo].blank /\ ~lines[lo].hash
         THEN LET c == current + lines[lo].opens - lines[lo].closes
              IN  [current |-> c, best |-> Max(best, c)]
         ELSE [current |-> current, best |-> best]
    ELSE LET mid  == (lo + hi) \div 2
             left == NestingScan(lines, lo, mid, current, best)
         IN  CHOOSE right \in {NestingScan(lines, mid + 1, hi, l.current, l.best) : l \in {left}} :
                 TRUE

_calculate_max_nesting(lines) == NestingScan(lines, 1, Len(lines), 0, 0).best

\* a complexity score returned without its clamp
ComplexityClamp_Unclamped(x, den) == x

\* the clamp of _calculate_complexity_score
ComplexityClamp(x, den) == Clamp100(x, den)

_calculate_complexity_score(lines, den) ==
    LET total_lines == Len(lines)
        complexity_indicators == SumSeq([i \in 1..Len(lines) |-> lines[i].indicators])
        \* complexity_ratio * 50; den / total_lines = 2
        ratio_pen == IF total_lines > 0 THEN complexity_indicators * 50 * 2 ELSE 0
        max_nesting == _calculate_max_nesting(lines)
        nest_pen == IF max_nesting > 4 THEN (max_nesting - 4) * 10 * den ELSE 0
    IN  ComplexityClamp(100 * den - ratio_pen - nest_pen, den)

\* the scan shared by _calculate_documentation_score and _count_documentation_lines:
\* in_doc is "none" outside a docstring, else the delimiter that opened it
\* the loop of _count_documentation_lines over the lines lo..hi: the open
\* docstring delimiter and the count behind the last line read
RECURSIVE DocScan(_, _, _, _, _)
DocScan(lines, lo, hi, in_doc, comment_lines) ==
    IF lo > hi THEN [in_doc |-> in_doc, comment_lines |-> comment_lines]
    ELSE IF lo = hi
    THEN LET l == lines[lo] IN
         IF in_doc = "none"
         THEN IF l.delim # "none"
              THEN IF l.delims = 1
                   THEN [in_doc |-> l.delim, comment_lines |-> comment_lines + 1]
                   ELSE [in_doc |-> "none", comment_lines |-> comment_lines + 1]
              ELSE IF l.hash \/ l.slashes \/ l.block \/ l.star
                   THEN [in_doc |-> "none", comment_lines |-> comment_lines + 1]
                   ELSE [in_doc |-> "none", comment_lines |-> comment_lines]
         ELSE [ in_doc |-> IF l.delim = in_doc THEN "none" ELSE in_doc,
                comment_lines |-> comment_lines + 1 ]
    ELSE LET mid  == (lo + hi) \div 2
             left == DocScan(lines, lo, mid, in_doc, comment_lines)
         IN  CHOOSE right \in {DocScan(lines, mid + 1, hi, l.in_doc, l.comment_lines) : l \in {left}} :
                 TRUE

_count_documentation_lines(lines) == DocScan(lines, 1, Len(lines), "none", 0).comment_lines

\* comment_ratio >= p/100, with comment_ratio = comment_lines / total_lines
RatioAtLeast(comment_lines, total_lines, p) == comment_lines * 100 >= p * total_lines

\* the documentation score with 20 for a file without lines
_calculate_documentation_score_EmptyIs20(lines) ==
    LET total_lines == Len(lines)
        comment_lines == _count_documentation_lines(lines)
    IN  IF total_lines = 0 THEN 20
        ELSE IF RatioAtLeast(comment_lines, total_lines, 20) THEN 100
        ELSE IF RatioAtLeast(comment_lines, total_lines, 15) THEN 90
        ELSE IF RatioAtLeast(comment_lines, total_lines, 10) THEN 80
        ELSE IF RatioAtLeast(comment_lines, total_lines, 5) THEN 60
        ELSE IF RatioAtLeast(comment_lines, total_lines, 2) THEN 40
        ELSE 20

_calculate_documentation_score(lines) ==
    LET total_lines == Len(lines)
        comment_lines == _count_documentation_lines(lines)
    IN  IF total_lines = 0 THEN 0
        ELSE IF RatioAtLeast(comment_lines, total_lines, 20) THEN 100
        ELSE IF RatioAtLeast(comment_lines, total_lines, 15) THEN 90
        ELSE IF RatioAtLeast(comment_lines, total_lines, 10) THEN 80
        ELSE IF RatioAtLeast(comment_lines, total_lines, 5) THEN 60
        ELSE IF RatioAtLeast(comment_lines, total_lines, 2) THEN 40
        ELSE 20

_generate_issues(smell_summary, lines) ==
    LET by_severity == smell_summary.by_severity
        by_type == smell_summary.by_type
        total_lines == Len(lines)
        comment_lines == _count_documentation_lines(lines)
    IN  (IF Get(by_severity, "critical", 0) > 0 THEN <<"Critical issues found">> ELSE <<>>)
        \o (IF Get(by_severity, "high", 0) > 0 THEN <<"High priority issues">> ELSE <<>>)
        \o (IF Get(by_type, "duplicate_code", 0) > 0 THEN <<"Code duplication">> ELSE <<>>)
        \o (IF Get(by_type, "long_function", 0) > 0 THEN <<"Long functions">> ELSE <<>>)
        \o (IF Get(by_type, "god_class", 0) > 0 THEN <<"God classes">> ELSE <<>>)
        \o (IF total_lines > 1000 THEN <<"Large file">>
            ELSE IF total_lines > 500 THEN <<"Moderately large file">> ELSE <<>>)
        \o (IF total_lines = 0 \/ ~RatioAtLeast(comment_lines, total_lines, 2)
            THEN <<"Very low documentation">>
            ELSE IF comment_lines * 2 > total_lines THEN <<"Excessive comments">> ELSE <<>>)

_generate_quality_recommendations(smell_summary, lines) ==
    LET by_type == smell_summary.by_type
        total_lines == Len(lines)
        comment_lines == _count_documentation_lines(lines)
        recs ==
            (IF Get(by_type, "duplicate_code", 0) > 0 THEN <<"Extract common functionality">> ELSE <<>>)
            \o (IF Get(by_type, "long_function", 0) > 0 THEN <<"Break down long functions">> ELSE <<>>)
            \o (IF Get(by_type, "god_class", 0) > 0 THEN <<"Split large classes">> ELSE <<>>)
            \o (IF Get(by_type, "complex_condition", 0) > 0 THEN <<"Simplify complex conditions">> ELSE <<>>)
            \o (IF Get(by_type, "magic_number", 0) > 0 THEN <<"Replace magic numbers">> ELSE <<>>)
            \o (IF Get(by_type, "unused_import", 0) > 0 THEN <<"Remove unused imports">> ELSE <<>>)
            \o (IF total_lines > 500 THEN <<"Consider splitting this file">> ELSE <<>>)
            \o (IF total_lines = 0 \/ ~RatioAtLeast(comment_lines, total_lines, 2)
                THEN <<"Add more comments">>
                ELSE IF comment_lines * 2 > total_lines THEN <<"Review comments">> ELSE <<>>)
    IN  IF recs = <<>> THEN <<"Code quality is good">>
        ELSE recs \o <<"Focus on the highest priority issues">>

\* the four sub-scores before rounding, in units of 1/den
SubScores(lines, smell_summary) ==
    LET den == Den(Len(lines))
    IN  [ den             |-> den,
          maintainability |-> _calculate_maintainability_score(smell_summary, den),
          readability     |-> _calculate_readability_score(lines, den),
          complexity      |-> _calculate_complexity_score(lines, den),
          documentation   |-> _calculate_documentation_score(lines) * den ]

\* the overall score with documentation weighted 0.25 instead of 0.2
OverallScore_WrongWeight(raw) ==
    30 * raw.maintainability + 25 * raw.readability
    + 25 * raw.complexity + 25 * raw.documentation

\* maintainability * 0.3 + readability * 0.25 + complexity * 0.25 + documentation * 0.2,
\* in units of 1/(100 * den)
OverallScore(raw) ==
    30 * raw.maintainability + 25 * raw.readability
    + 25 * raw.complexity + 20 * raw.documentation

\* round(x, 1) of a value of n/den points: the tenths it can give
Round1(n, den) == RoundDiv(10 * n, den)

\* the QualityScore records analyze_file can return; scores in tenths of a point
QualityScore(lines, smell_summary) ==
    LET raw == SubScores(lines, smell_summary)
    IN  [ overall_score   : Round1(OverallScore(raw), 100 * raw.den),
          maintainability : Round1(raw.maintainability, raw.den),
          readability     : Round1(raw.readability, raw.den),
          complexity      : Round1(raw.complexity, raw.den),
          documentation   : Round1(raw.documentation, raw.den),
          issues          : {_generate_issues(smell_summary, lines)},
          recommendations : {_generate_quality_recommendations(smell_summary, lines)} ]

\* the smell summaries handed to analyze_file: each of three kinds of finding
\* absent, once, or MaxPerKind times
MaxPerKind == 13

KindCounts == {0, 1, MaxPerKind}

SummaryOf(god, long, dup) ==
    get_smell_summary(Repeat(CodeSmell("god_class", "high", 16, 1), god)
                      \o Repeat(CodeSmell("long_function", "medium", 51, 1), long)
                      \o Repeat(CodeSmell("duplicate_code", "medium", 0, 1), dup))

QualitySummaries == {SummaryOf(g, l, d) : g \in KindCounts, l \in KindCounts, d \in KindCounts}

NoScore == [ overall_score |-> 0, maintainability |-> 0, readability |-> 0, complexity |-> 0,
             documentation |-> 0, issues |-> <<>>, recommendations |-> <<>> ]

NoRaw == [den |-> 2, maintainability |-> 0, readability |-> 0, complexity |-> 0, documentation |-> 0]

TdIdle == [pc |-> "idle"]

\* the number of detect_smells calls, and of changes to a file, in a run
MaxCalls == 3

MaxWrites == 1

\* CodeSmellDetector(): an empty list, empty caches; no file, no call yet
SdIdle ==
    [ fs |-> <<>>, heap |-> << <<>> >>, smells |-> 1, file_path |-> "",
      content_cache |-> <<>>, ast_cache |-> {}, hist |-> <<>>, writes |-> 0 ]

RtIdle == [pc |-> "idle"]

\* the other components before they are constructed
DpIdle == [pc |-> "idle"]

CpIdle == [pc |-> "idle"]

ApiIdle == [pc |-> "idle"]

QaIdle == [ pc |-> "idle", file |-> <<>>, smell_summary |-> get_smell_summary(<<>>),
            lines |-> <<>>, total_lines |-> 0, raw |-> NoRaw, score |-> NoScore ]

\* CodeQualityAnalyzer(): no file read yet; the call's arguments are fixed
QInit ==
    /\ qa \in [ pc : {"ready"}, file : TextFiles, smell_summary : QualitySummaries,
                lines : {<<>>}, total_lines : {0}, raw : {NoRaw}, score : {NoScore} ]
    /\ td = TdIdle
    /\ sd = SdIdle
    /\ rt = RtIdle
    /\ dp = DpIdle
    /\ cp = CpIdle
    /\ api = ApiIdle

\* analyze_file(file_path, smell_summary): reads the file, scores it, returns
analyze_file ==
    /\ qa.pc = "ready"
    /\ UNCHANGED <<td, sd, rt, dp, cp, api>>
    /\ \E score \in QualityScore(qa.file, qa.smell_summary) :
         qa' = [qa EXCEPT !.pc = "done",
                          !.lines = qa.file,
                          !.total_lines = Len(qa.file),
                          !.raw = SubScores(qa.file, qa.smell_summary),
                          !.score = score]

SpecQuality == QInit /\ [][analyze_file]_vars

(***************************************************************************)
(* Properties of the quality scorer                                        *)
(***************************************************************************)
InPoints(tenths) == tenths >= 0 /\ tenths <= 1000

\* C1: every sub-score analyze_file returns (maintainability, readability,
\* complexity, documentation) lies in [0,100].
C1_SubScoresInRange ==
    qa.pc = "done" =>
        /\ InPoints(qa.score.maintainability)
        /\ InPoints(qa.score.readability)
        /\ InPoints(qa.score.complexity)
        /\ InPoints(qa.score.documentation)

\* a returned score whose maintainability and complexity were both cut off at 0
C1_Witness ==
    /\ qa.pc = "done"
    /\ qa.score.maintainability = 0
    /\ qa.score.complexity = 0
    /\ Get(qa.smell_summary.by_type, "god_class", 0) * 12 > 100
    /\ qa.score.readability < 1000

\* the weighted sum of the reported sub-scores, in units of 1/1000 point
ReportedWeightedSum(score) ==
    30 * score.maintainability + 25 * score.readability
    + 25 * score.complexity + 20 * score.documentation

\* C3 as stated: the reported overall score equals exactly the weighted sum
\* 0.30/0.25/0.25/0.20 of the reported sub-scores.
C3_OverallExactSum ==
    qa.pc = "done" => 100 * qa.score.overall_score = ReportedWeightedSum(qa.score)

\* C3 amended: the reported overall score is the weighted sum of the clamped
\* sub-scores before their rounding, rounded to one decimal; each reported
\* sub-score is its clamped value rounded to one decimal; so the overall score
\* is within 0.1 of the weighted sum of the reported sub-scores.
C3_OverallRoundedSum ==
    qa.pc = "done" =>
        LET raw == qa.raw
            den == raw.den
            sum == 30 * raw.maintainability + 25 * raw.readability
                   + 25 * raw.complexity + 20 * raw.documentation
            diff == 100 * qa.score.overall_score - ReportedWeightedSum(qa.score)
        IN  /\ \A k \in {"maintainability", "readability", "complexity", "documentation"} :
                 /\ raw[k] >= 0 /\ raw[k] <= 100 * den
                 /\ qa.score[k] \in RoundDiv(10 * raw[k], den)
            /\ qa.score.overall_score \in RoundDiv(10 * sum, 100 * den)
            /\ diff < 100 /\ diff > -100

\* a returned score where rounding shows: the overall score differs from the
\* weighted sum of the reported sub-scores
C3_Witness ==
    /\ qa.pc = "done"
    /\ 100 * qa.score.overall_score # ReportedWeightedSum(qa.score)
    /\ qa.score.complexity * qa.raw.den # 10 * qa.raw.complexity

(***************************************************************************)
(* TechnicalDebtCalculator                                                 *)
(***************************************************************************)
\* a prediction's confidence is k/ConfDen, k in 1..ConfDen
ConfDen == 7

\* the unit of a debt value before rounding: 1/DebtUnit of a point
DebtUnit == 1000 * ConfDen

\* the weights with code_smells at 0.30 instead of 0.35
weights_SmellsLow == [ code_smells |-> 30, complexity |-> 25, maintainability |-> 20,
                       documentation |-> 10, duplication |-> 10 ]

\* self.weights, in hundredths
weights == [ code_smells |-> 35, complexity |-> 25, maintainability |-> 20,
             documentation |-> 10, duplication |-> 10 ]

Categories == DOMAIN weights

\* severity_scores.get(severity, 0) and type_penalties.get(smell_type, 2.0)
severity_scores(sev) ==
    CASE sev = "critical" -> 25 [] sev = "high" -> 15 [] sev = "medium" -> 8
      [] sev = "low" -> 3 [] OTHER -> 0

\* the penalties with nothing for a kind that is not listed
type_penalties_NoDefault(t) ==
    CASE t = "god_class" -> 20 [] t = "long_function" -> 12 [] t = "duplicate_code" -> 10
      [] t = "deep_nesting" -> 8 [] t = "complex_condition" -> 5 [] OTHER -> 0

type_penalties(t) ==
    CASE t = "god_class" -> 20 [] t = "long_function" -> 12 [] t = "duplicate_code" -> 10
      [] t = "deep_nesting" -> 8 [] t = "complex_condition" -> 5 [] OTHER -> 2

\* the sum of the values of a finite function
RECURSIVE SumFn(_)
SumFn(f) ==
    IF DOMAIN f = {} THEN 0
    ELSE LET x == CHOOSE y \in DOMAIN f : TRUE
         IN  f[x] + SumFn([y \in DOMAIN f \ {x} |-> f[y]])

\* min(100.0, debt), in units of 1/DebtUnit
Cap100(x) == Min(100 * DebtUnit, x)

_calculate_smell_debt(code_smells) ==
    IF code_smells.total_smells = 0 THEN 0
    ELSE LET by_severity == code_smells.by_severity
             by_type == code_smells.by_type
             debt == SumFn([sv \in DOMAIN by_severity |-> by_severity[sv] * severity_scores(sv)])
                     + SumFn([t \in DOMAIN by_type |-> by_type[t] * type_penalties(t)])
         \* (debt / 200) * 100
         IN  Cap100((debt * DebtUnit) \div 2)

\* complexity_debt_map.get(complexity_desc, 30.0)
complexity_debt_map(desc) ==
    CASE desc = "O(1)" -> 0 [] desc = "O(log n)" -> 10 [] desc = "O(n)" -> 25
      [] desc = "O(n log n)" -> 40 [] desc = "O(n^2)" -> 60 [] OTHER -> 30

\* the complexity debt with an error object read as an unknown class of full
\* confidence: complexity_debt_map's default of 30.0 added at 0.4
_calculate_complexity_debt_DefaultOnError(quality_score, prediction) ==
    Cap100((1000 - quality_score.complexity) * 60 * ConfDen
           + (IF prediction.error THEN 30 * ConfDen * 400
              ELSE complexity_debt_map(prediction.complexity_description)
                   * (2 * ConfDen - prediction.confidence) * 400))

_calculate_complexity_debt(quality_score, prediction) ==
    LET \* (100 - complexity_score) * 0.6
        from_quality == (1000 - quality_score.complexity) * 60 * ConfDen
        \* base_debt * (1.0 + (1.0 - confidence)) * 0.4
        from_ml == IF prediction.error THEN 0
                   ELSE complexity_debt_map(prediction.complexity_description)
                        * (2 * ConfDen - prediction.confidence) * 400
    IN  Cap100(from_quality + from_ml)

_calculate_maintainability_debt(quality_score, code_smells) ==
    LET by_type == code_smells.by_type
        count == Get(by_type, "god_class", 0) + Get(by_type, "long_function", 0)
                 + Get(by_type, "duplicate_code", 0)
    \* (100 - maintainability_score) * 0.7 + count * 5.0
    IN  Cap100((1000 - quality_score.maintainability) * 70 * ConfDen + count * 5 * DebtUnit)

_calculate_documentation_debt(quality_score, total_elements) ==
    \* (100 - doc_score) * 0.8 + total_elements * 0.3 * 2.0
    Cap100((1000 - quality_score.documentation) * 80 * ConfDen
           + total_elements * 600 * ConfDen)

\* a duplication debt returned without its cap
DuplicationCap_Uncapped(x) == x

\* the cap of _calculate_duplication_debt
DuplicationCap(x) == Cap100(x)

_calculate_duplication_debt(code_smells) ==
    LET by_type == code_smells.by_type
    IN  DuplicationCap((Get(by_type, "duplicate_code", 0) * 8
                        + Get(by_type, "duplicate_string", 0)) * DebtUnit)

debt_breakdown(quality_score, code_smells, prediction, total_elements) ==
    [ code_smells     |-> _calculate_smell_debt(code_smells),
      complexity      |-> _calculate_complexity_debt(quality_score, prediction),
      maintainability |-> _calculate_maintainability_debt(quality_score, code_smells),
      documentation   |-> _calculate_documentation_debt(quality_score, total_elements),
      duplication     |-> _calculate_duplication_debt(code_smells) ]

\* sum(debt_breakdown[category] * weight), in units of 1/(100 * DebtUnit)
WeightedTotal(breakdown) ==
    SumFn([c \in Categories |-> breakdown[c] * weights[c]])

\* max(0, min(100, total_debt_score)), in units of 1/(100 * DebtUnit)
total_debt_score(breakdown) == Max(0, Min(100 * 100 * DebtUnit, WeightedTotal(breakdown)))

\* current_debt in units of 1/(100 * DebtUnit)
_determine_debt_trend(current_debt) ==
    IF current_debt >= 70 * 100 * DebtUnit THEN "increasing"
    ELSE IF current_debt >= 40 * 100 * DebtUnit THEN "stable"
    ELSE "decreasing"

\* score in hundredths of a point
_get_debt_level(score) ==
    IF score >= 7000 THEN "critical"
    ELSE IF score >= 5000 THEN "high"
    ELSE IF score >= 3000 THEN "medium"
    ELSE "low"

\* self.cost_multipliers.get(key, 0.25), in hundredths of an hour
cost_multipliers(key) ==
    CASE key = "critical" -> 800 [] key = "high" -> 400 [] key = "medium" -> 200
      [] key = "low" -> 50 [] key = "long_function" -> 300 [] key = "god_class" -> 600
      [] key = "duplicate_code" -> 250 [] key = "deep_nesting" -> 200
      [] key = "complex_condition" -> 150 [] key = "magic_number" -> 30
      [] key = "unused_import" -> 10 [] key = "missing_documentation" -> 100
      [] OTHER -> 25

\* hours in units of 1/200 hour
_estimate_fix_hours(code_smells, quality_score) ==
    LET smells == code_smells.smells
        from_smells == SumSeq([i \in 1..Len(smells) |->
                          cost_multipliers(smells[i].severity) + cost_multipliers(smells[i].type)])
        from_issues == Len(quality_score.issues) * 50
    IN  Min(from_smells + from_issues, 8 * 200)

ContainsCriticalOrHigh(issue) == issue \in {"Critical issues found", "High priority issues"}

SeverityOrder(sev) ==
    CASE sev = "critical" -> 0 [] sev = "high" -> 1 [] sev = "medium" -> 2 [] OTHER -> 3

\* the list left in the order it was built
SortBySeverity_Unsorted(s) == s

\* list.sort(key = severity order): stable
SortBySeverity(s) ==
    LET Rank(k) == LET Is(x) == SeverityOrder(x.severity) = k IN SelectSeq(s, Is)
    IN  Rank(0) \o Rank(1) \o Rank(2) \o Rank(3)

_get_priority_issues(code_smells, quality_score) ==
    LET IsUrgent(f) == f.severity \in {"critical", "high"}
        from_smells == SelectSeq(code_smells.smells, IsUrgent)
        top5 == SubSeq(quality_score.issues, 1, Min(5, Len(quality_score.issues)))
        from_quality == [i \in 1..Len(SelectSeq(top5, ContainsCriticalOrHigh)) |->
                            [type |-> "quality_issue", severity |-> "high", n |-> 0, line |-> 0]]
        sorted == SortBySeverity(from_smells \o from_quality)
    IN  SubSeq(sorted, 1, Min(10, Len(sorted)))

\* the recommendations with the duplication advice given above 40 as the others
_generate_recommendations_Dup40(breakdown, quality_score, total_debt) ==
    LET recs ==
          (IF total_debt >= 70 * 100 * DebtUnit THEN <<"CRITICAL: High technical debt">>
           ELSE IF total_debt >= 50 * 100 * DebtUnit THEN <<"WARNING: Moderate technical debt">>
           ELSE IF total_debt >= 30 * 100 * DebtUnit THEN <<"INFO: Some technical debt">>
           ELSE <<>>)
          \o (IF breakdown.code_smells > 40 * DebtUnit THEN <<"Focus on eliminating code smells">> ELSE <<>>)
          \o (IF breakdown.complexity > 40 * DebtUnit THEN <<"Reduce code complexity">> ELSE <<>>)
          \o (IF breakdown.maintainability > 40 * DebtUnit THEN <<"Improve maintainability">> ELSE <<>>)
          \o (IF breakdown.documentation > 40 * DebtUnit THEN <<"Add comprehensive documentation">> ELSE <<>>)
          \o (IF breakdown.duplication > 40 * DebtUnit THEN <<"Eliminate code duplication">> ELSE <<>>)
          \o SubSeq(quality_score.recommendations, 1, Min(3, Len(quality_score.recommendations)))
        all == IF recs = <<>> THEN <<"Code quality is good! Maintain current standards.">> ELSE recs
    IN  SubSeq(all, 1, Min(8, Len(all)))

_generate_recommendations(breakdown, quality_score, total_debt) ==
    LET recs ==
          (IF total_debt >= 70 * 100 * DebtUnit THEN <<"CRITICAL: High technical debt">>
           ELSE IF total_debt >= 50 * 100 * DebtUnit THEN <<"WARNING: Moderate technical debt">>
           ELSE IF total_debt >= 30 * 100 * DebtUnit THEN <<"INFO: Some technical debt">>
           ELSE <<>>)
          \o (IF breakdown.code_smells > 40 * DebtUnit THEN <<"Focus on eliminating code smells">> ELSE <<>>)
          \o (IF breakdown.complexity > 40 * DebtUnit THEN <<"Reduce code complexity">> ELSE <<>>)
          \o (IF breakdown.maintainability > 40 * DebtUnit THEN <<"Improve maintainability">> ELSE <<>>)
          \o (IF breakdown.documentation > 40 * DebtUnit THEN <<"Add comprehensive documentation">> ELSE <<>>)
          \o (IF breakdown.duplication > 30 * DebtUnit THEN <<"Eliminate code duplication">> ELSE <<>>)
          \o SubSeq(quality_score.recommendations, 1, Min(3, Len(quality_score.recommendations)))
        all == IF recs = <<>> THEN <<"Code quality is good! Maintain current standards.">> ELSE recs
    IN  SubSeq(all, 1, Min(8, Len(all)))

\* round(x, 2) of n/DebtUnit points: the hundredths it can give
Round2(n) == RoundDiv(100 * n, DebtUnit)

\* the TechnicalDebtMetrics records calculate_debt can return: scores in
\* hundredths of a point, hours in tenths of an hour
TechnicalDebtMetrics(quality_score, code_smells, prediction, total_elements) ==
    LET breakdown == debt_breakdown(quality_score, code_smells, prediction, total_elements)
        total == total_debt_score(breakdown)
    IN  [ total_debt_score : RoundDiv(total, DebtUnit),
          debt_breakdown   : [ code_smells     : Round2(breakdown.code_smells),
                               complexity      : Round2(breakdown.complexity),
                               maintainability : Round2(breakdown.maintainability),
                               documentation   : Round2(breakdown.documentation),
                               duplication     : Round2(breakdown.duplication) ],
          estimated_hours  : RoundDiv(_estimate_fix_hours(code_smells, quality_score), 20),
          priority_issues  : {_get_priority_issues(code_smells, quality_score)},
          debt_trend       : {_determine_debt_trend(total)},
          recommendations  : {_generate_recommendations(breakdown, quality_score, total)} ]

\* the inputs of calculate_debt as the pipeline builds them: a smell summary,
\* the QualityScore of a file under that summary, a prediction (an error
\* object or a label with a confidence) and the number of functions and classes
DebtSummary(god, dup, magic, syntax) ==
    get_smell_summary(Repeat(CodeSmell("syntax_error", "critical", 0, 0), syntax)
                      \o Repeat(CodeSmell("god_class", "high", 16, 1), god)
                      \o Repeat(CodeSmell("duplicate_code", "medium", 0, 1), dup)
                      \o Repeat(CodeSmell("magic_number", "low", 42, 1), magic))

\* and the summaries of a long function, a deeply nested block, a complex
\* condition and an unused import, each there or not, of 3 to 6 duplicates,
\* and one a caller built with 11 high findings ahead of 2 critical ones
DebtSummaries ==
    {DebtSummary(g, d, m, sy) : g \in KindCounts, d \in KindCounts, m \in KindCounts, sy \in {0, 1}}
    \cup {get_smell_summary(Repeat(CodeSmell("long_function", "medium", 51, 1), long)
                            \o Repeat(CodeSmell("deep_nesting", "medium", 5, 2), deep)
                            \o Repeat(CodeSmell("complex_condition", "high", 6, 3), cond)
                            \o Repeat(CodeSmell("unused_import", "low", 0, 4), imp))
           : long \in {0, 1}, deep \in {0, 1}, cond \in {0, 1}, imp \in {0, 1}}
    \cup {DebtSummary(0, dup, 0, 0) : dup \in 3..6}
    \cup {get_smell_summary(Repeat(CodeSmell("god_class", "high", 16, 1), 11)
                            \o Repeat(CodeSmell("syntax_error", "critical", 0, 0), 2))}

NoPrediction == [error |-> TRUE, complexity_description |-> "", confidence |-> 0]

Predictions ==
    {NoPrediction}
    \cup [ error : {FALSE}, complexity_description : {"O(1)", "O(n^2)", "n_cube"},
           confidence : {k \in 1..ConfDen : 5 * k >= ConfDen} ]

MaxElements == 70

TdInputs ==
    UNION { [ pc : {"ready"}, code_smells : {cs}, quality_score : QualityScore(f, cs),
              prediction : Predictions, total_elements : {0, MaxElements} ]
            : cs \in DebtSummaries,
              f \in {Expand(r) : r \in UNION {[1..n -> Runs] : n \in 0..1}} }

NoMetrics == [ total_debt_score |-> 0, debt_breakdown |-> [c \in Categories |-> 0],
               estimated_hours |-> 0, priority_issues |-> <<>>, debt_trend |-> "decreasing",
               recommendations |-> <<>> ]

DInit ==
    /\ \E i \in TdInputs :
        td = [ pc |-> i.pc, code_smells |-> i.code_smells, quality_score |-> i.quality_score,
               prediction |-> i.prediction, total_elements |-> i.total_elements,
               breakdown |-> [c \in Categories |-> 0], total |-> 0, metrics |-> NoMetrics ]
    /\ qa = QaIdle
    /\ sd = SdIdle
    /\ rt = RtIdle
    /\ dp = DpIdle
    /\ cp = CpIdle
    /\ api = ApiIdle

\* calculate_debt(quality_score, code_smells, ml_complexity, ast_data)
calculate_debt ==
    /\ td.pc = "ready"
    /\ \E m \in TechnicalDebtMetrics(td.quality_score, td.code_smells, td.prediction,
                                     td.total_elements) :
         LET breakdown == debt_breakdown(td.quality_score, td.code_smells, td.prediction,
                                         td.total_elements)
         IN  td' = [td EXCEPT !.pc = "done",
                              !.breakdown = breakdown,
                              !.total = total_debt_score(breakdown),
                              !.metrics = m]
    /\ UNCHANGED <<qa, sd, rt, dp, cp, api>>

SpecDebt == DInit /\ [][calculate_debt]_vars

(***************************************************************************)
(* Properties of the debt calculator                                       *)
(***************************************************************************)
\* C2: each of the five debt_breakdown categories calculate_debt reports lies
\* in [0,100], the lower and the upper bound.
C2_BreakdownInRange ==
    td.pc = "done" =>
        \A c \in {"code_smells", "complexity", "maintainability", "documentation", "duplication"} :
            /\ td.metrics.debt_breakdown[c] >= 0
            /\ td.metrics.debt_breakdown[c] <= 10000
            /\ td.breakdown[c] >= 0
            /\ td.breakdown[c] <= 100 * DebtUnit

\* a report whose duplication and code_smells debts were both cut off at 100
C2_Witness ==
    /\ td.pc = "done"
    /\ Get(td.code_smells.by_type, "duplicate_code", 0) * 8 > 100
    /\ td.metrics.debt_breakdown["duplication"] = 10000
    /\ td.metrics.debt_breakdown["code_smells"] = 10000
    /\ ~td.prediction.error

\* the weighted sum of the reported breakdown, in units of 1/10000 point
ReportedDebtSum(m) ==
    35 * m.debt_breakdown["code_smells"] + 25 * m.debt_breakdown["complexity"]
    + 20 * m.debt_breakdown["maintainability"] + 10 * m.debt_breakdown["documentation"]
    + 10 * m.debt_breakdown["duplication"]

\* C4 as stated: total_debt_score equals the weighted sum of the reported
\* debt_breakdown values, clamped to [0,100].
C4_TotalExactSum ==
    td.pc = "done" =>
        100 * td.metrics.total_debt_score
            = Max(0, Min(100 * 10000, ReportedDebtSum(td.metrics)))

\* C4 amended: total_debt_score is the weighted sum (0.35, 0.25, 0.20, 0.10,
\* 0.10) of the category debts before their rounding, clamped to [0,100] and
\* rounded to two decimals; each reported debt_breakdown value is the category
\* debt rounded to two decimals; so total_debt_score is within 0.01 of the
\* weighted sum of the reported values.
C4_TotalRoundedSum ==
    td.pc = "done" =>
        LET b == td.breakdown
            sum == 35 * b["code_smells"] + 25 * b["complexity"] + 20 * b["maintainability"]
                   + 10 * b["documentation"] + 10 * b["duplication"]
            clamped == Max(0, Min(100 * 100 * DebtUnit, sum))
            diff == 100 * td.metrics.total_debt_score - ReportedDebtSum(td.metrics)
        IN  /\ td.metrics.total_debt_score \in RoundDiv(clamped, DebtUnit)
            /\ \A c \in DOMAIN b : td.metrics.debt_breakdown[c] \in RoundDiv(100 * b[c], DebtUnit)
            /\ diff < 100 /\ diff > -100

\* a report where rounding shows: the total differs from the weighted sum of
\* the reported breakdown, and the complexity debt itself was rounded
C4_Witness ==
    /\ td.pc = "done"
    /\ 100 * td.metrics.total_debt_score # ReportedDebtSum(td.metrics)
    /\ td.metrics.debt_breakdown["complexity"] * DebtUnit # 100 * td.breakdown["complexity"]

(***************************************************************************)
(* Source text as the smell detector reads it.  A file's content is a      *)
(* sequence of runs of one line, every line ended by a newline.  A line is *)
(* named by its kind and the words that vary in it; each string test and   *)
(* each regular expression of the detector is an operator on lines.  No    *)
(* line holds more than one closing brace, or an opening brace before a    *)
(* closing one, so a brace count changes once per line.  A file holds the  *)
(* lines of one language: the p lines (Python), or the others; the         *)
(* operators below say what a test gives on the lines of such a file.      *)
(*                                                                         *)
(*   jclass     public class <name> {                                      *)
(*   jmethod    public <ret> <name>(int a1, ..., int a<n>) {               *)
(*   jmain      public static void main(String[] args) {                   *)
(*   jpkg       void <name>() {                                            *)
(*   jctor      public <name>() {                                          *)
(*   jfield     private int count;                                         *)
(*   jpubfield  public int total;                                          *)
(*   jprint     System.out.println(count);                                 *)
(*   jretnull   return null;                                               *)
(*   jif        if (count > 0) {                                           *)
(*   cfunc      int <name>() {                                             *)
(*   cnew       Foo* p = new Foo();                                        *)
(*   cdelete    delete p;                                                  *)
(*   cif        if (a0 && a1 && ... && a<n>) {                             *)
(*   stmt       count = count + 1;                                         *)
(*   close      }                                                          *)
(*   pdef       def <name>(a1, ..., a<n>):                                 *)
(*   pclass     class <name>:                                              *)
(*   pif        if a0 < a1 < ... < a<n>:                                   *)
(*              if a0 and a1 and ... and a<n>:      (ret = "and")          *)
(*   pbody      <four spaces>total = 1                                     *)
(*   pinner     <4 * n spaces>if a0:                                       *)
(*   pdeep      <4 * n spaces>total = 1                                    *)
(*   pmethod    <four spaces>def noop(self): pass                          *)
(*   pstmt      total = 1                                                  *)
(*   pmagic     limit = 42                                                 *)
(*   pimport    import os                                                  *)
(*   pbroken    def broken(:                                               *)
(***************************************************************************)
SrcLine(t, name, ret, n) == [t |-> t, name |-> name, ret |-> ret, n |-> n]

Plain(t) == SrcLine(t, "", "", 0)

Run(line, times) == [line |-> line, times |-> times]

\* content.split('\n') without its last, empty piece
SourceLines(content) == Expand(content)

\* the indices of a list, in order
Indices(s) == [i \in 1..Len(s) |-> i]

\* line.count('{') and line.count('}')
OpenBraces(l) ==
    IF l.t \in {"jclass", "jmethod", "jmain", "jpkg", "jctor", "jif", "cfunc", "cif"} THEN 1 ELSE 0

CloseBraces(l) == IF l.t = "close" THEN 1 ELSE 0

\* r'class\s+(\w+)': the line names a class
ClassPattern(l) == l.t \in {"jclass", "pclass"}

\* the character scan shared by the _find_*_end functions, over the lines
\* lo..hi with the brace count at `count`: the line of the first closing
\* brace that brings the count to zero once an opening brace was seen (found,
\* 0 if there is none), and the count and the flag behind the last line read
RECURSIVE BraceScanRange(_, _, _, _, _)
BraceScanRange(lines, lo, hi, count, seen) ==
    IF lo > hi THEN [found |-> 0, count |-> count, seen |-> seen]
    ELSE IF lo = hi
    THEN IF CloseBraces(lines[lo]) = 1 /\ seen /\ count - 1 = 0
         THEN [found |-> lo, count |-> 0, seen |-> seen]
         ELSE [ found |-> 0,
                count |-> count - CloseBraces(lines[lo]) + OpenBraces(lines[lo]),
                seen  |-> seen \/ OpenBraces(lines[lo]) > 0 ]
    ELSE LET mid  == (lo + hi) \div 2
             left == BraceScanRange(lines, lo, mid, count, seen)
         IN  IF left.found # 0 THEN left
             ELSE BraceScanRange(lines, mid + 1, hi, left.count, left.seen)

BraceScan(lines, i, count, seen) == BraceScanRange(lines, i, Len(lines), count, seen).found

(***************************************************************************)
(* Java rules                                                              *)
(***************************************************************************)
\* method_pattern of _detect_long_methods_java (an access modifier, an
\* optional static, a return type, a name, a parameter list, a brace) matches
\* the jmethod and jmain lines; group 4 is the name, group 3 the return type
MethodName(l) == IF l.t = "jmain" THEN "main" ELSE l.name

\* _find_method_end_line(content, match.end()) for the header on line h:
\* brace_count starts at 1; the end of the content if the braces never close
_find_method_end_line(lines, h) ==
    LET e == BraceScan(lines, h + 1, 1, TRUE)
    IN  IF e = 0 THEN Len(lines) + 1 ELSE e

IsLongMethod_SpecThreshold(method_length) == method_length > 50

\* "elif method_length > 80"
IsLongMethod(method_length) == method_length > 80

\* concatenation of a list of lists
RECURSIVE Flatten(_)
Flatten(ss) ==
    IF ss = <<>> THEN <<>>
    ELSE IF Len(ss) = 1 THEN ss[1]
    ELSE Flatten(SubSeq(ss, 1, Len(ss) \div 2))
         \o Flatten(SubSeq(ss, Len(ss) \div 2 + 1, Len(ss)))

_detect_long_methods_java(lines) ==
    LET class_names == {lines[i].name : i \in {j \in 1..Len(lines) : ClassPattern(lines[j])}}
        matches == SelectSeq(Indices(lines), LAMBDA h :
                       /\ lines[h].t \in {"jmethod", "jmain"}
                       /\ MethodName(lines[h]) \notin class_names
                       /\ (IF lines[h].t = "jmain" THEN "void" ELSE lines[h].ret)
                            # MethodName(lines[h]))
        method_length(h) == _find_method_end_line(lines, h) - h + 1
        finding(h) ==
            IF MethodName(lines[h]) = "main"
            THEN IF method_length(h) > 30
                 THEN <<CodeSmell("long_main_method",
                                  IF method_length(h) > 50 THEN "high" ELSE "medium",
                                  method_length(h), h)>>
                 ELSE <<>>
            ELSE IF IsLongMethod(method_length(h))
                 THEN <<CodeSmell("long_method",
                                  IF method_length(h) > 150 THEN "high" ELSE "medium",
                                  method_length(h), h)>>
                 ELSE <<>>
    IN  Flatten([k \in 1..Len(matches) |-> finding(matches[k])])

\* per line: the opening braces minus the closing braces of that line
_detect_deep_nesting_java(lines) ==
    LET deep == SelectSeq(Indices(lines), LAMBDA i :
                    OpenBraces(lines[i]) - CloseBraces(lines[i]) > 4)
    IN  [k \in 1..Len(deep) |->
            CodeSmell("deep_nesting", "medium",
                      OpenBraces(lines[deep[k]]) - CloseBraces(lines[deep[k]]), deep[k])]

\* the parameter-list pattern (two words and a parenthesised list) matches
\* the method, constructor and function headers and "Foo* p = new Foo();";
\* the number of parameters in the list
ParameterCount(l) == IF l.t = "jmethod" THEN l.n ELSE IF l.t = "jmain" THEN 1 ELSE 0

_detect_long_parameter_lists_java(lines) ==
    LET long == SelectSeq(Indices(lines), LAMBDA i :
                    /\ lines[i].t \in {"jmethod", "jmain", "jpkg", "jctor", "cfunc", "cnew"}
                    /\ ParameterCount(lines[i]) > 5)
    IN  [k \in 1..Len(long) |->
            CodeSmell("long_parameter_list",
                      IF ParameterCount(lines[long[k]]) > 8 THEN "high" ELSE "medium",
                      ParameterCount(lines[long[k]]), long[k])]

\* the method pattern of the god-class rule: an optional modifier, two words,
\* a parameter list and a brace
GodMethodPattern(l) == l.t \in {"jmethod", "jmain", "jpkg", "jctor", "cfunc"}

\* the field pattern of the god-class rule: two words and a semicolon
GodFieldPattern(l) == l.t \in {"jfield", "jpubfield", "jretnull", "cdelete"}

\* _find_class_end(content, match.end()) for the class header on line h:
\* brace_count starts at 0 behind the class's own brace; 0 for len(content)
_find_class_end(lines, h) == BraceScan(lines, h + 1, 0, FALSE)

\* the lines of content[class_start:class_end]
ClassContent(lines, h) ==
    LET e == _find_class_end(lines, h)
    IN  (h + 1)..(IF e = 0 THEN Len(lines) ELSE e - 1)

\* class_pattern r'class\s+\w+\s*\{'; the description prints method_count
\* and field_count, n keeps method_count
_detect_god_classes_java(lines) ==
    LET classes == SelectSeq(Indices(lines), LAMBDA h : lines[h].t = "jclass")
        method_count(h) ==
            Cardinality({i \in ClassContent(lines, h) : GodMethodPattern(lines[i])})
        field_count(h) ==
            Cardinality({i \in ClassContent(lines, h) : GodFieldPattern(lines[i])})
        finding(h) ==
            IF method_count(h) > 15 \/ field_count(h) > 20
            THEN <<CodeSmell("god_class", "high", method_count(h), h)>>
            ELSE <<>>
    IN  Flatten([k \in 1..Len(classes) |-> finding(classes[k])])

\* current_class at line i: the class named last, up to and including line i
CurrentClass(lines, i) ==
    LET named == {j \in 1..i : ClassPattern(lines[j])}
    IN  IF named = {} THEN ""
        ELSE lines[CHOOSE j \in named : \A k \in named : k <= j].name

\* is_allowed, any(allowed in current_class for allowed in allowed_classes),
\* over the class names the files use: "MainApp" holds 'Main' and 'App',
\* "Widget" and "Foo" hold none of the allowed words
_detect_println_in_domain_classes(lines) ==
    LET hits == SelectSeq(Indices(lines), LAMBDA i :
                    /\ lines[i].t = "jprint"
                    /\ CurrentClass(lines, i) # ""
                    /\ CurrentClass(lines, i) # "MainApp")
    IN  [k \in 1..Len(hits) |-> CodeSmell("println_in_domain", "medium", 0, hits[k])]

\* "return null;" with, in the ten lines before it, a signature line
\* (modifier, type, name, parenthesis) whose type is none of the primitives
_detect_null_returns_java(lines) ==
    LET hits == SelectSeq(Indices(lines), LAMBDA i :
                    /\ lines[i].t = "jretnull"
                    /\ \E j \in Max(1, i - 10)..(i - 1) :
                          /\ lines[j].t = "jmethod"
                          /\ lines[j].ret \notin {"void", "int", "long", "double", "float",
                                                  "boolean", "byte", "short", "char"})
    IN  [k \in 1..Len(hits) |-> CodeSmell("null_return", "medium", 0, hits[k])]

_detect_poor_encapsulation_java(lines) ==
    LET hits == SelectSeq(Indices(lines), LAMBDA i : lines[i].t = "jpubfield")
    IN  [k \in 1..Len(hits) |-> CodeSmell("public_field", "medium", 0, hits[k])]

_detect_java_smells(lines) ==
    _detect_long_methods_java(lines)
    \o _detect_deep_nesting_java(lines)
    \o _detect_long_parameter_lists_java(lines)
    \o _detect_god_classes_java(lines)
    \o _detect_println_in_domain_classes(lines)
    \o _detect_null_returns_java(lines)
    \o _detect_poor_encapsulation_java(lines)

(***************************************************************************)
(* C and C++ rules, and the rules shared by several languages              *)
(***************************************************************************)
\* function_pattern r'\w+\s+\w+\s*\([^)]*\)\s*\{'
FunctionPattern(l) == l.t \in {"jmethod", "jmain", "jpkg", "jctor", "cfunc"}

\* _find_function_end_cpp(content, match.end()) for the header on line h:
\* brace_count starts at 0 behind the function's own brace; content.count('\n')
\* if no closing brace brings the count back to zero
_find_function_end_cpp(lines, h) ==
    LET e == BraceScan(lines, h + 1, 0, FALSE)
    IN  IF e = 0 THEN Len(lines) ELSE e

_detect_long_functions_cpp(lines) ==
    LET length(h) == _find_function_end_cpp(lines, h) - h + 1
        long == SelectSeq(Indices(lines), LAMBDA h :
                    FunctionPattern(lines[h]) /\ length(h) > 50)
    IN  [k \in 1..Len(long) |->
            CodeSmell("long_function", IF length(long[k]) > 100 THEN "high" ELSE "medium",
                      length(long[k]), long[k])]

_detect_deep_nesting_cpp(lines) == _detect_deep_nesting_java(lines)

\* re.findall(r'\b\w+\b', line)
Words(l) ==
    CASE l.t = "jclass"    -> {"public", "class", l.name}
      [] l.t = "jmethod"   -> {"public", l.ret, l.name} \cup (IF l.n > 0 THEN {"int"} ELSE {})
                              \cup {"a" \o ToString(i) : i \in 1..l.n}
      [] l.t = "jmain"     -> {"public", "static", "void", "main", "String", "args"}
      [] l.t = "jpkg"      -> {"void", l.name}
      [] l.t = "jctor"     -> {"public", l.name}
      [] l.t = "jfield"    -> {"private", "int", "count"}
      [] l.t = "jpubfield" -> {"public", "int", "total"}
      [] l.t = "jprint"    -> {"System", "out", "println", "count"}
      [] l.t = "jretnull"  -> {"return", "null"}
      [] l.t = "jif"       -> {"if", "count", "0"}
      [] l.t = "cfunc"     -> {"int", l.name}
      [] l.t = "cnew"      -> {"Foo", "p", "new"}
      [] l.t = "cdelete"   -> {"delete", "p"}
      [] l.t = "cif"       -> {"if"} \cup {"a" \o ToString(i) : i \in 0..l.n}
      [] l.t = "stmt"      -> {"count", "1"}
      [] l.t = "close"     -> {}
      [] l.t = "pdef"      -> {"def", l.name} \cup {"a" \o ToString(i) : i \in 1..l.n}
      [] l.t = "pclass"    -> {"class", l.name}
      [] l.t = "pif"       -> {"if"} \cup {"a" \o ToString(i) : i \in 0..l.n}
                              \cup (IF l.ret = "and" /\ l.n > 0 THEN {"and"} ELSE {})
      [] l.t = "pinner"    -> {"if", "a0"}
      [] l.t = "pdeep"     -> {"total", "1"}
      [] l.t = "pbody"     -> {"total", "1"}
      [] l.t = "pmethod"   -> {"def", "noop", "self", "pass"}
      [] l.t = "pstmt"     -> {"total", "1"}
      [] l.t = "pmagic"    -> {"limit", "42"}
      [] l.t = "pimport"   -> {"import", "os"}
      [] l.t = "pbroken"   -> {"def", "broken"}

\* _extract_function_content_cpp(content, func_match) for the header on line
\* h: the lines behind the header up to the closing brace found, "" if none
_extract_function_content_cpp(lines, h) ==
    LET e == BraceScan(lines, h + 1, 0, FALSE)
    IN  IF e = 0 THEN {} ELSE (h + 1)..e

\* _code_blocks_are_similar on two blocks of lines of `lines`
_code_blocks_are_similar(lines, block1, block2) ==
    LET keywords1 == UNION {Words(lines[i]) : i \in block1}
        keywords2 == UNION {Words(lines[i]) : i \in block2}
        common_keywords == Cardinality(keywords1 \cap keywords2)
        total_keywords == Cardinality(keywords1 \cup keywords2)
        diff == Cardinality(block1) - Cardinality(block2)
    IN  /\ diff <= 2 /\ diff >= -2
        /\ total_keywords > 0
        /\ 10 * common_keywords > 7 * total_keywords

\* all pairs (i, j) of 1..m in the order of the two nested loops
Pairs(m) == [k \in 1..(m * m) |-> <<((k - 1) \div m) + 1, ((k - 1) % m) + 1>>]

_detect_duplicate_code_cpp(lines) ==
    LET functions == SelectSeq(Indices(lines), LAMBDA h : FunctionPattern(lines[h]))
        similar == SelectSeq(Pairs(Len(functions)), LAMBDA p :
                       /\ p[1] < p[2]
                       /\ _code_blocks_are_similar(lines,
                              _extract_function_content_cpp(lines, functions[p[1]]),
                              _extract_function_content_cpp(lines, functions[p[2]])))
    IN  [k \in 1..Len(similar) |->
            CodeSmell("duplicate_code", "medium", 0, functions[similar[k][1]])]

\* the numbers of a line the magic-number pattern matches and int() puts above 10
MagicNumbers(l) == IF l.t = "pmagic" THEN <<42>> ELSE <<>>

_detect_magic_numbers(lines) ==
    Flatten([i \in 1..Len(lines) |->
                [k \in 1..Len(MagicNumbers(lines[i])) |->
                    CodeSmell("magic_number", "low", MagicNumbers(lines[i])[k], i)]])

\* finditer(r'new\s+\w+') and finditer(r'delete\s+')
_detect_memory_leaks(lines) ==
    LET new_matches == SelectSeq(Indices(lines), LAMBDA i : lines[i].t = "cnew")
        delete_matches == SelectSeq(Indices(lines), LAMBDA i : lines[i].t = "cdelete")
    IN  IF Len(new_matches) > Len(delete_matches)
        THEN [k \in 1..Len(new_matches) |->
                 CodeSmell("potential_memory_leak", "high", 0, new_matches[k])]
        ELSE <<>>

\* the number of && and || in the condition of an if
ConditionOperators(l) == IF l.t = "cif" THEN l.n ELSE 0

_detect_complex_conditions_cpp(lines) ==
    LET ifs == SelectSeq(Indices(lines), LAMBDA i :
                   lines[i].t \in {"jif", "cif"} /\ ConditionOperators(lines[i]) > 3)
    IN  [k \in 1..Len(ifs) |->
            CodeSmell("complex_condition",
                      IF ConditionOperators(lines[ifs[k]]) > 5 THEN "high" ELSE "medium",
                      ConditionOperators(lines[ifs[k]]), ifs[k])]

_detect_cpp_smells(lines) ==
    _detect_long_functions_cpp(lines)
    \o _detect_deep_nesting_cpp(lines)
    \o _detect_duplicate_code_cpp(lines)
    \o _detect_magic_numbers(lines)
    \o _detect_memory_leaks(lines)
    \o _detect_complex_conditions_cpp(lines)

\* len(content.split('\n')) counts the empty piece behind the last newline
_detect_large_files(lines) ==
    LET line_count == Len(lines) + 1
    IN  IF line_count > 500
        THEN <<CodeSmell("large_file", IF line_count > 1000 THEN "high" ELSE "medium",
                         line_count, 1)>>
        ELSE <<>>

_detect_general_smells(lines) == _detect_large_files(lines)

(***************************************************************************)
(* Python: ast.parse and the rules on the tree                             *)
(***************************************************************************)
\* a line that opens a block, the indentation of a line in steps of four
\* spaces, a line inside a block
IsHeader(l) == l.t \in {"pdef", "pclass", "pif", "pinner"}

Indent(l) ==
    CASE l.t \in {"pbody", "pmethod"} -> 1
      [] l.t \in {"pinner", "pdeep"} -> l.n
      [] OTHER -> 0

IsIndented(l) == Indent(l) > 0

\* ast.parse raises SyntaxError (IndentationError is one) unless every line
\* is a statement, the line after a header is indented deeper than it, and
\* any other line is indented as an enclosing block that is still open
ParsesAsPython(lines) ==
    /\ \A i \in 1..Len(lines) : \/ IsHeader(lines[i])
          \/ IsIndented(lines[i])
          \/ lines[i].t \in {"pstmt", "pmagic", "pimport", "stmt", "jprint", "jretnull"}
    /\ \A i \in 1..Len(lines) :
          IF i > 1 /\ IsHeader(lines[i - 1])
          THEN Indent(lines[i]) > Indent(lines[i - 1])
          ELSE \/ Indent(lines[i]) = 0
               \/ \E j \in 1..(i - 1) :
                     /\ Indent(lines[j]) = Indent(lines[i])
                     /\ \A k \in j..i : Indent(lines[k]) >= Indent(lines[i])
    /\ \A i \in 1..Len(lines) : IsHeader(lines[i]) => i < Len(lines)

\* the last line of the block under the header on line h
BlockEnd(lines, h) ==
    CHOOSE e \in h..Len(lines) :
        /\ \A k \in (h + 1)..e : Indent(lines[k]) > Indent(lines[h])
        /\ e = Len(lines) \/ Indent(lines[e + 1]) <= Indent(lines[h])

\* a node of the tree: its class, name or id, position, number of parameters
\* (FunctionDef) or of comparison operators (Compare), its body and its
\* child nodes in the order of ast.iter_child_nodes.  Contexts, aliases and
\* single arg nodes, which no rule looks at, are left out.
Node(type, name, lineno, end_lineno, n, body, children) ==
    [ type |-> type, name |-> name, lineno |-> lineno, end_lineno |-> end_lineno,
      n |-> n, body |-> body, children |-> children ]

Leaf(type, name, lineno) == Node(type, name, lineno, lineno, 0, <<>>, <<>>)

Assign(target, lineno) ==
    Node("Assign", "", lineno, lineno, 0, <<>>,
         <<Leaf("Name", target, lineno), Leaf("Constant", "", lineno)>>)

\* the statement on line i, which is not a header
SimpleNode(l, i) ==
    CASE l.t \in {"pbody", "pstmt", "pdeep"} -> Assign("total", i)
      [] l.t = "pmagic"  -> Assign("limit", i)
      [] l.t = "stmt"    -> Node("Assign", "", i, i, 0, <<>>,
                                 <<Leaf("Name", "count", i),
                                   Node("BinOp", "", i, i, 0, <<>>,
                                        <<Leaf("Name", "count", i), Leaf("Add", "", i),
                                          Leaf("Constant", "", i)>>)>>)
      [] l.t = "pimport" -> Leaf("Import", "os", i)
      [] l.t = "jprint"  -> Node("Expr", "", i, i, 0, <<>>,
                                 <<Node("Call", "", i, i, 0, <<>>,
                                        <<Node("Attribute", "println", i, i, 0, <<>>,
                                               <<Node("Attribute", "out", i, i, 0, <<>>,
                                                      <<Leaf("Name", "System", i)>>)>>),
                                          Leaf("Name", "count", i)>>)>>)
      [] l.t = "jretnull" -> Node("Return", "", i, i, 0, <<>>, <<Leaf("Name", "null", i)>>)
      [] l.t = "pmethod" -> Node("FunctionDef", "noop", i, i, 1, <<Leaf("Pass", "", i)>>,
                                 <<Leaf("arguments", "", i), Leaf("Pass", "", i)>>)

\* the statement whose first line is i: a header with its block (the
\* statements indented as the block's first line), or a simple one
RECURSIVE StatementNode(_, _)
StatementNode(lines, i) ==
    LET l == lines[i]
        e == BlockEnd(lines, i)
        inner == SelectSeq([k \in 1..(e - i) |-> i + k],
                           LAMBDA k : Indent(lines[k]) = Indent(lines[i + 1]))
        body == [k \in 1..Len(inner) |-> StatementNode(lines, inner[k])]
    IN  CASE l.t = "pdef"   -> Node("FunctionDef", l.name, i, e, l.n, body,
                                    <<Leaf("arguments", "", i)>> \o body)
          [] l.t = "pclass" -> Node("ClassDef", l.name, i, e, 0, body, body)
          [] l.t = "pif"    -> Node("If", "", i, e, 0, body,
                                    <<IF l.n = 0 THEN Leaf("Name", "a0", i)
                                      ELSE IF l.ret = "and"
                                      THEN Node("BoolOp", "", i, i, l.n, <<>>,
                                                <<Leaf("And", "", i)>>
                                                \o [k \in 1..(l.n + 1) |->
                                                    Leaf("Name", "a" \o ToString(k - 1), i)])
                                      ELSE Node("Compare", "", i, i, l.n, <<>>,
                                                [k \in 1..(l.n + 1) |->
                                                    Leaf("Name", "a" \o ToString(k - 1), i)])>>
                                    \o body)
          [] l.t = "pinner" -> Node("If", "", i, e, 0, body, <<Leaf("Name", "a0", i)>> \o body)
          [] OTHER          -> SimpleNode(l, i)

\* ast.parse(content) for content that parses: the Module node
ast_parse(lines) ==
    LET top == SelectSeq(Indices(lines), LAMBDA i : ~IsIndented(lines[i]))
        body == [k \in 1..Len(top) |-> StatementNode(lines, top[k])]
    IN  Node("Module", "", 0, 0, 0, body, body)

\* ast.walk: breadth first, "todo.extend(iter_child_nodes(node))"; the nodes
\* of one depth, then those of the next
RECURSIVE WalkLevels(_)
WalkLevels(level) ==
    IF level = <<>> THEN <<>>
    ELSE level \o WalkLevels(Flatten([k \in 1..Len(level) |-> level[k].children]))

ast_walk(node) == WalkLevels(<<node>>)

IsLongFunction_FromFifty(function_length) == function_length >= 50

\* "if function_length > 50"
IsLongFunction(function_length) == function_length > 50

_detect_long_functions(tree) ==
    LET length(node) == node.end_lineno - node.lineno + 1
        long == SelectSeq(ast_walk(tree), LAMBDA node :
                    node.type = "FunctionDef" /\ IsLongFunction(length(node)))
    IN  [k \in 1..Len(long) |->
            CodeSmell("long_function", IF length(long[k]) > 100 THEN "high" ELSE "medium",
                      length(long[k]), long[k].lineno)]

\* "while hasattr(current, 'parent')": ast.parse sets no parent attribute
_calculate_nesting_level(node) == 0

_detect_deep_nesting(tree) ==
    LET deep == SelectSeq(ast_walk(tree), LAMBDA node :
                    /\ node.type \in {"For", "While", "If", "With", "Try"}
                    /\ _calculate_nesting_level(node) > 4)
    IN  [k \in 1..Len(deep) |->
            CodeSmell("deep_nesting",
                      IF _calculate_nesting_level(deep[k]) > 6 THEN "high" ELSE "medium",
                      _calculate_nesting_level(deep[k]), deep[k].lineno)]

\* len([n for n in ast.walk(func) if isinstance(n, (Assign, Call, Return))])
StatementCount(func) ==
    Len(SelectSeq(ast_walk(func), LAMBDA n : n.type \in {"Assign", "Call", "Return"}))

_functions_are_similar(func1, func2) ==
    LET func1_lines == StatementCount(func1)
        func2_lines == StatementCount(func2)
    IN  /\ func1_lines - func2_lines <= 2
        /\ func2_lines - func1_lines <= 2
        /\ func1_lines > 5

_detect_duplicate_code_python(tree) ==
    LET functions == SelectSeq(ast_walk(tree), LAMBDA node : node.type = "FunctionDef")
        similar == SelectSeq(Pairs(Len(functions)), LAMBDA p :
                       /\ p[1] < p[2]
                       /\ _functions_are_similar(functions[p[1]], functions[p[2]]))
    IN  [k \in 1..Len(similar) |->
            CodeSmell("duplicate_code", "medium", 0, functions[similar[k][1]].lineno)]

\* "os" does not start with an underscore
_detect_unused_imports(tree) ==
    LET nodes == ast_walk(tree)
        used_names == {nodes[i].name : i \in {j \in 1..Len(nodes) : nodes[j].type = "Name"}}
        unused == SelectSeq(nodes, LAMBDA node :
                      node.type = "Import" /\ node.name \notin used_names)
    IN  [k \in 1..Len(unused) |-> CodeSmell("unused_import", "low", 0, unused[k].lineno)]

_detect_long_parameter_lists(tree) ==
    LET long == SelectSeq(ast_walk(tree), LAMBDA node :
                    node.type = "FunctionDef" /\ node.n > 5)
    IN  [k \in 1..Len(long) |->
            CodeSmell("long_parameter_list", IF long[k].n > 8 THEN "high" ELSE "medium",
                      long[k].n, long[k].lineno)]

\* the test of an If is never an ast.And or ast.Or node (those are the op of
\* a BoolOp), so only a Compare counts more than 1
_calculate_condition_complexity(node) ==
    IF node.type \in {"And", "Or"} THEN 1
    ELSE IF node.type = "Compare" THEN 1 + node.n
    ELSE 1

_detect_complex_conditions(tree) ==
    LET complexity(node) == _calculate_condition_complexity(node.children[1])
        complex == SelectSeq(ast_walk(tree), LAMBDA node :
                       node.type = "If" /\ complexity(node) > 3)
    IN  [k \in 1..Len(complex) |->
            CodeSmell("complex_condition",
                      IF complexity(complex[k]) > 5 THEN "high" ELSE "medium",
                      complexity(complex[k]), complex[k].lineno)]

\* the rule with "len(methods) > 20" instead
_detect_god_classes_python_Over20(tree) ==
    LET methods(node) == SelectSeq(node.body, LAMBDA n : n.type = "FunctionDef")
        god == SelectSeq(ast_walk(tree), LAMBDA node :
                   node.type = "ClassDef" /\ Len(methods(node)) > 20)
    IN  [k \in 1..Len(god) |->
            CodeSmell("god_class", "high", Len(methods(god[k])), god[k].lineno)]

_detect_god_classes_python(tree) ==
    LET methods(node) == SelectSeq(node.body, LAMBDA n : n.type = "FunctionDef")
        god == SelectSeq(ast_walk(tree), LAMBDA node :
                   node.type = "ClassDef" /\ Len(methods(node)) > 15)
    IN  [k \in 1..Len(god) |->
            CodeSmell("god_class", "high", Len(methods(god[k])), god[k].lineno)]

\* the except branch: one critical finding on line 0, and none of the rules
\* of the try block (the magic-number rule among them)
_detect_python_smells(lines) ==
    IF ParsesAsPython(lines)
    THEN LET tree == ast_parse(lines)
         IN  _detect_long_functions(tree)
             \o _detect_deep_nesting(tree)
             \o _detect_duplicate_code_python(tree)
             \o _detect_magic_numbers(lines)
             \o _detect_unused_imports(tree)
             \o _detect_long_parameter_lists(tree)
             \o _detect_complex_conditions(tree)
             \o _detect_god_classes_python(tree)
    ELSE <<CodeSmell("syntax_error", "critical", 0, 0)>>

(***************************************************************************)
(* CodeSmellDetector.detect_smells, its caches, and the files it reads     *)
(***************************************************************************)
\* the language rules detect_smells runs for an extension, then the general ones
RulesFor(ext, lines) ==
    (CASE ext = ".py"   -> _detect_python_smells(lines)
       [] ext = ".java" -> _detect_java_smells(lines)
       [] ext \in {".cpp", ".c", ".h"} -> _detect_cpp_smells(lines)
       [] OTHER         -> <<>>)
    \o _detect_general_smells(lines)

\* len(line) + 1: the bytes of a line and its newline ("int a1, ..., int a<n>"
\* has 8n - 2 characters, "a1, ..., a<n>" has 4n - 2)
LineBytes(l) ==
    CASE l.t = "jclass"    -> 16 + Len(l.name)
      [] l.t = "jmethod"   -> 13 + Len(l.ret) + Len(l.name) + (IF l.n = 0 THEN 0 ELSE 8 * l.n - 2)
      [] l.t = "jmain"     -> 41
      [] l.t = "jpkg"      -> 10 + Len(l.name)
      [] l.t = "jctor"     -> 12 + Len(l.name)
      [] l.t = "jfield"    -> 19
      [] l.t = "jpubfield" -> 18
      [] l.t = "jprint"    -> 27
      [] l.t = "jretnull"  -> 13
      [] l.t = "jif"       -> 17
      [] l.t = "cfunc"     -> 9 + Len(l.name)
      [] l.t = "cnew"      -> 20
      [] l.t = "cdelete"   -> 10
      [] l.t = "cif"       -> 10 + 6 * l.n
      [] l.t = "stmt"      -> 19
      [] l.t = "close"     -> 2
      [] l.t = "pdef"      -> 8 + Len(l.name) + (IF l.n = 0 THEN 0 ELSE 4 * l.n - 2)
      [] l.t = "pclass"    -> 8 + Len(l.name)
      [] l.t = "pif"       -> IF l.ret = "and" THEN 7 + 7 * l.n ELSE 7 + 5 * l.n
      [] l.t = "pinner"    -> 7 + 4 * l.n
      [] l.t = "pdeep"     -> 10 + 4 * l.n
      [] l.t = "pbody"     -> 14
      [] l.t = "pmethod"   -> 25
      [] l.t = "pstmt"     -> 10
      [] l.t = "pmagic"    -> 11
      [] l.t = "pimport"   -> 10
      [] l.t = "pbroken"   -> 13

\* os.stat(file_path).st_size for a file holding content
SizeOf(content) == SumSeq([k \in 1..Len(content) |-> content[k].times * LineBytes(content[k].line)])

FileOf(mtime, content) == [st_mtime |-> mtime, st_size |-> SizeOf(content), content |-> content]

\* os.path.splitext(file_path)[1] of the paths used
Ext(file_path) ==
    CASE file_path = "a.py"   -> ".py"
      [] file_path = "B.java" -> ".java"
      [] file_path = "c.cpp"  -> ".cpp"

\* _get_file_hash: the MD5 of path, str(st_mtime) and str(st_size) written one
\* behind the other.  Two keys are the same hash when they are the same
\* string; st_mtime is kept as the text str() gives for it.
_get_file_hash(file_path, stat) == file_path \o stat.st_mtime \o ToString(stat.st_size)

RebindSmells_ClearInPlace(heap, smells) ==
    [heap |-> [heap EXCEPT ![smells] = <<>>], smells |-> smells]

\* "self.smells = []": a new list object; heap holds every list made so far
RebindSmells(heap, smells) == [heap |-> Append(heap, <<>>), smells |-> Len(heap) + 1]

\* detect_smells(file_path) on the one detector.  hist records, per call, the
\* file as it was (path, st_mtime, st_size, bytes), the content analysed,
\* whether it came from the cache, the list object returned and the findings
\* in it at the return.
detect_smells ==
    /\ Len(sd.hist) < MaxCalls
    /\ \E file_path \in DOMAIN sd.fs :
         LET stat      == sd.fs[file_path]
             fresh     == RebindSmells(sd.heap, sd.smells)
             file_hash == _get_file_hash(file_path, stat)
             cached    == file_hash \in DOMAIN sd.content_cache
             content   == IF cached THEN sd.content_cache[file_hash] ELSE stat.content
             lines     == SourceLines(content)
             heap      == [fresh.heap EXCEPT ![fresh.smells] =
                               @ \o RulesFor(Ext(file_path), lines)]
         IN  sd' = [sd EXCEPT
                      !.heap = heap,
                      !.smells = fresh.smells,
                      !.file_path = file_path,
                      !.content_cache = IF cached THEN @ ELSE (file_hash :> content) @@ @,
                      !.ast_cache = IF Ext(file_path) = ".py" /\ ParsesAsPython(lines)
                                    THEN @ \cup {content} ELSE @,
                      !.hist = Append(@, [ file_path |-> file_path,
                                           st_mtime  |-> stat.st_mtime,
                                           st_size   |-> stat.st_size,
                                           bytes     |-> stat.content,
                                           content   |-> content,
                                           cached    |-> cached,
                                           returned  |-> fresh.smells,
                                           findings  |-> heap[fresh.smells] ])]
    /\ UNCHANGED <<qa, td, rt, dp, cp, api>>

\* the files the detector is run on while they change.  "import os" and
\* "total = 1" have the same size (10 bytes), so have the two Java files; the
\* Python file may also be empty.
DetectorFiles(file_path) ==
    CASE file_path = "a.py" ->
           { <<Run(Plain("pimport"), 1)>>, <<Run(Plain("pstmt"), 1)>>, <<Run(Plain("pbroken"), 1)>>,
             <<>> }
      [] file_path = "B.java" ->
           { <<Run(SrcLine("jclass", "Widget", "", 0), 1), Run(Plain("jpubfield"), 1),
               Run(Plain("close"), 1)>>,
             <<Run(SrcLine("jclass", "Widget", "", 0), 1), Run(Plain("close"), 1),
               Run(Plain("jpubfield"), 1)>> }
      [] file_path = "c.cpp" ->
           { <<Run(Plain("cnew"), 2)>>, <<Run(Plain("cnew"), 1), Run(Plain("cdelete"), 1)>> }

(***************************************************************************)
(* The files the rules are checked on                                      *)
(***************************************************************************)
\* a Python function of body + 1 lines, a class of one-line methods, an if
PyFunction(name, params, body) ==
    <<Run(SrcLine("pdef", name, "", params), 1), Run(Plain("pbody"), body)>>

PyClass(name, methods) ==
    <<Run(SrcLine("pclass", name, "", 0), 1), Run(Plain("pmethod"), methods)>>

\* the Python files: up to two items, each a function of 2, 49, 50, 51, 100
\* or 101 lines, a function of six parameters, a class of 15 or 16 methods,
\* an if with 2 or 3 comparison operators or with 4 or 6 `and` operators, a
\* magic number, an import, or a line that does not parse; functions of
\* 50, 51 and 101 lines together; and 6 and 8 ifs nested in one another
PyFiles ==
    LET PyIf(operators) ==
            <<Run(SrcLine("pif", "", "", operators), 1), Run(Plain("pbody"), 1)>>
        PyIfAnd(operators) ==
            <<Run(SrcLine("pif", "", "and", operators), 1), Run(Plain("pbody"), 1)>>
        PyItems ==
            {PyFunction("run", 0, body) : body \in {1, 48, 49, 50, 99, 100}}
            \cup {PyFunction("run", 6, 1)}
            \cup {PyClass("Widget", methods) : methods \in {15, 16}}
            \cup {PyIf(operators) : operators \in {2, 3}}
            \cup {PyIfAnd(operators) : operators \in {4, 6}}
            \cup {<<Run(Plain("pmagic"), 1)>>, <<Run(Plain("pimport"), 1)>>,
                  <<Run(Plain("pbroken"), 1)>>}
    IN  {Flatten(items) : items \in UNION {[1..n -> PyItems] : n \in 0..2}}
        \cup { PyFunction("run", 0, 49) \o PyFunction("run", 0, 50)
                 \o PyFunction("run", 0, 100) }
        \cup { <<Run(SrcLine("pif", "", "", 0), 1)>>
                 \o [k \in 1..(depth - 1) |-> Run(SrcLine("pinner", "", "", k), 1)]
                 \o <<Run(SrcLine("pdeep", "", "", depth), 1)>> : depth \in {6, 8} }

\* a Java or C++ function: the header, body statements, the closing brace
BraceFunction(header, body) ==
    <<Run(header, 1), Run(Plain("stmt"), body), Run(Plain("close"), 1)>>

JavaClass(name, members) ==
    <<Run(SrcLine("jclass", name, "", 0), 1)>> \o members \o <<Run(Plain("close"), 1)>>

\* the most methods of a class, and the most `new` and `delete` of a file
MaxMethods == 17

MaxNews == 3

\* one class: fields, then methods of one statement each
JavaGodClass(fields, methods) ==
    JavaClass("Widget",
              <<Run(Plain("jfield"), fields)>>
              \o Flatten([k \in 1..methods |->
                             BraceFunction(SrcLine("jmethod", "run", "void", 0), 1)]))

\* the Java files: a class of up to two members, each a method of 50, 51,
\* 80, 81, 100, 101, 150 or 151 lines, a main of 30, 31, 50 or 51 lines, or
\* one of 151 lines that is a constructor, has its type as its name, or has
\* no access modifier; one class with methods of 80, 81 and 151 lines, a
\* main of 31 lines, a constructor and a method without access modifier of
\* 151 lines; the classes of 0..MaxMethods methods and 0 or 21 fields; and a
\* class whose method nests three ifs, one brace per line
JavaFiles ==
    LET JavaMembers ==
            {BraceFunction(SrcLine("jmethod", "run", "void", 0), body) :
                body \in {48, 49, 78, 79, 98, 99, 148, 149}}
            \cup {BraceFunction(Plain("jmain"), body) : body \in {28, 29, 48, 49}}
            \cup {BraceFunction(header, 149) :
                    header \in { SrcLine("jmethod", "Widget", "void", 0),
                                 SrcLine("jmethod", "Foo", "Foo", 0),
                                 SrcLine("jpkg", "helper", "", 0),
                                 SrcLine("jctor", "Widget", "", 0) }}
    IN  {JavaClass("Widget", Flatten(members)) :
            members \in UNION {[1..n -> JavaMembers] : n \in 0..2}}
        \cup { JavaClass("Widget",
                         BraceFunction(SrcLine("jmethod", "run", "void", 0), 78)
                         \o BraceFunction(SrcLine("jmethod", "run", "void", 0), 79)
                         \o BraceFunction(SrcLine("jmethod", "run", "void", 0), 149)
                         \o BraceFunction(Plain("jmain"), 29)
                         \o BraceFunction(SrcLine("jctor", "Widget", "", 0), 149)
                         \o BraceFunction(SrcLine("jpkg", "helper", "", 0), 149)) }
        \cup {JavaGodClass(fields, methods) : fields \in {0, 21}, methods \in 0..MaxMethods}
        \cup { JavaClass("Widget",
                         <<Run(SrcLine("jmethod", "run", "void", 0), 1), Run(Plain("jif"), 3),
                           Run(Plain("stmt"), 1), Run(Plain("close"), 4)>>) }

CppFiles ==
    { <<Run(SrcLine("cfunc", "main", "", 0), 1), Run(Plain("cnew"), news),
        Run(Plain("cdelete"), deletes), Run(Plain("close"), 1)>>
      : news \in 0..MaxNews, deletes \in 0..MaxNews }
    \cup {BraceFunction(SrcLine("cfunc", "main", "", 0), body) : body \in {48, 49}}
    \cup { <<Run(SrcLine("cfunc", "main", "", 0), 1), Run(SrcLine("cif", "", "", 4), 1),
             Run(Plain("close"), 2)>> }
    \cup { <<Run(SrcLine("cfunc", "main", "", 0), 1), Run(SrcLine("cif", "", "", 0), 4),
             Run(Plain("stmt"), 1), Run(Plain("close"), 5)>> }
    \cup { BraceFunction(SrcLine("cfunc", "main", "", 0), first)
           \o BraceFunction(SrcLine("cfunc", "helper", "", 0), 28)
           : first \in {28, 49} }
    \cup { BraceFunction(SrcLine("cfunc", "main", "", 0), 28)
           \o <<Run(SrcLine("cfunc", "helper", "", 0), 1), Run(Plain("stmt"), 25),
                Run(SrcLine("cif", "", "", 0), 1), Run(Plain("stmt"), 1),
                Run(Plain("close"), 2)>> }

RuleFiles ==
    [file_path : {"a.py"}, content : PyFiles]
    \cup [file_path : {"B.java"}, content : JavaFiles]
    \cup [file_path : {"c.cpp"}, content : CppFiles]

\* another process rewrites a file the detector reads: new bytes, and an
\* st_mtime ("1.5", "1.51" or "2.5" as str gives it) that changes or (a write
\* within the clock's resolution) does not
write_file ==
    /\ sd.writes < MaxWrites
    /\ \E file_path \in DOMAIN sd.fs, mtime \in {"1.5", "1.51", "2.5"} :
       \E content \in DetectorFiles(file_path) :
         /\ FileOf(mtime, content) # sd.fs[file_path]
         /\ sd' = [sd EXCEPT !.fs[file_path] = FileOf(mtime, content), !.writes = @ + 1]
    /\ UNCHANGED <<qa, td, rt, dp, cp, api>>

\* CodeSmellDetector() beside three files
DetInit ==
    /\ \E py \in DetectorFiles("a.py"), java \in DetectorFiles("B.java"),
          cpp \in DetectorFiles("c.cpp") :
         sd = [SdIdle EXCEPT !.fs = ("a.py" :> FileOf("1.5", py))
                                    @@ ("B.java" :> FileOf("1.5", java))
                                    @@ ("c.cpp" :> FileOf("1.5", cpp))]
    /\ qa = QaIdle
    /\ td = TdIdle
    /\ rt = RtIdle
    /\ dp = DpIdle
    /\ cp = CpIdle
    /\ api = ApiIdle

SpecDetector == DetInit /\ [][detect_smells \/ write_file]_vars

\* CodeSmellDetector() beside one file of RuleFiles
RulesInit ==
    /\ \E f \in RuleFiles : sd = [SdIdle EXCEPT !.fs = (f.file_path :> FileOf("1.5", f.content))]
    /\ qa = QaIdle
    /\ td = TdIdle
    /\ rt = RtIdle
    /\ dp = DpIdle
    /\ cp = CpIdle
    /\ api = ApiIdle

SpecRules == RulesInit /\ [][detect_smells]_vars

(***************************************************************************)
(* The composite calls: ASTParser.parse_file and FeatureRouter.analyze_code *)
(***************************************************************************)
\* a source line as the quality scorer reads it
QualityLine(l) ==
    CASE l.t \in {"pstmt", "pmagic", "stmt"} -> LineCode
      [] l.t \in {"pclass", "pimport", "jfield", "jpubfield", "jretnull", "cdelete"} ->
             [LineCode EXCEPT !.eq = FALSE]
      [] l.t = "pdef"    -> [LineCode EXCEPT !.eq = FALSE, !.opens = 1, !.closes = 1]
      [] l.t = "pbroken" -> [LineCode EXCEPT !.eq = FALSE, !.opens = 1]
      [] l.t = "pif"     -> [LineCode EXCEPT !.eq = FALSE,
                                             !.indicators = IF l.ret = "and" THEN 1 + l.n ELSE 1]
      [] l.t = "pbody"   -> [LineCode EXCEPT !.indent = 4, !.space0 = TRUE, !.dbl = TRUE]
      [] l.t = "pinner"  -> [LineCode EXCEPT !.eq = FALSE, !.indicators = 1, !.indent = 4 * l.n,
                                             !.space0 = l.n > 0, !.dbl = l.n > 0]
      [] l.t = "pdeep"   -> [LineCode EXCEPT !.indent = 4 * l.n, !.space0 = l.n > 0,
                                             !.dbl = l.n > 0]
      [] l.t = "pmethod" -> [LineCode EXCEPT !.eq = FALSE, !.indent = 4, !.space0 = TRUE,
                                             !.dbl = TRUE, !.opens = 1, !.closes = 1]
      [] l.t = "jclass"  -> [LineCode EXCEPT !.eq = FALSE, !.opens = 1]
      [] l.t \in {"jmethod", "jpkg", "jctor", "cfunc"} ->
             [LineCode EXCEPT !.eq = FALSE, !.opens = 2, !.closes = 1]
      [] l.t = "jmain"   -> [LineCode EXCEPT !.eq = FALSE, !.opens = 3, !.closes = 2]
      [] l.t = "jprint"  -> [LineCode EXCEPT !.eq = FALSE, !.opens = 1, !.closes = 1]
      [] l.t = "jif"     -> [LineCode EXCEPT !.eq = FALSE, !.indicators = 1, !.opens = 2,
                                             !.closes = 1]
      [] l.t = "cif"     -> [LineCode EXCEPT !.eq = FALSE, !.indicators = 1 + l.n,
                                             !.opens = 2, !.closes = 1]
      [] l.t = "cnew"    -> [LineCode EXCEPT !.single = TRUE, !.opens = 1, !.closes = 1]
      [] l.t = "close"   -> [LineCode EXCEPT !.eq = FALSE, !.closes = 1]

\* language_map.get(ext.lower(), 'Unknown')
_get_language_name(ext) ==
    CASE ext = ".py" -> "Python" [] ext = ".java" -> "Java" [] ext = ".cpp" -> "C++"
      [] OTHER -> "Unknown"

\* _parse_python_ast on code that parses: the class and function names
_parse_python_ast(lines) ==
    LET nodes == ast_walk(ast_parse(lines))
        names(type) == LET found == SelectSeq(nodes, LAMBDA node : node.type = type)
                       IN  [k \in 1..Len(found) |-> found[k].name]
    IN  [language |-> "Python", classes |-> names("ClassDef"), functions |-> names("FunctionDef")]

\* the report parse_file builds from the structure, the smell summary and one
\* value of the quality score; prediction is what predict_complexity gives
ReportsWith(ast_result, smell_summary, quality_score, prediction) ==
    { [ language |-> ast_result.language,
        classes |-> ast_result.classes,
        functions |-> ast_result.functions,
        code_smells |-> smell_summary,
        quality_score |-> quality_score,
        ml_complexity |-> [prediction |-> prediction],
        technical_debt |-> debt_metrics,
        debt_level |-> _get_debt_level(debt_metrics.total_debt_score) ]
      : debt_metrics \in
          TechnicalDebtMetrics(quality_score, smell_summary, prediction,
                               Len(ast_result.functions) + Len(ast_result.classes)) }

\* what parse_file returns when nothing is raised, for a .py or a .cpp file
ParseFileReports(file_path, content, prediction) ==
    UNION { UNION { ReportsWith(ast_result, smell_summary, quality_score, prediction)
                    : quality_score \in QualityScore(quality_lines, smell_summary) }
            : ast_result \in
                  {IF Ext(file_path) = ".py" THEN _parse_python_ast(SourceLines(content))
                   ELSE [language |-> _get_language_name(Ext(file_path)),
                         classes |-> <<>>, functions |-> <<>>]},
              smell_summary \in
                  {get_smell_summary(RulesFor(Ext(file_path), SourceLines(content)))},
              quality_lines \in {[i \in 1..Len(SourceLines(content)) |->
                                      QualityLine(SourceLines(content)[i])]} }

Returned(report) == [kind |-> "returned", exception |-> "", report |-> report]

Raised(exception) == [kind |-> "raised", exception |-> exception, report |-> <<>>]

\* parse_file(file_path): _parse_python_ast calls ast.parse outside any try,
\* so its SyntaxError leaves parse_file before the detector is called
ParseFileOutcomes(file_path, content, prediction) ==
    IF Ext(file_path) = ".py" /\ ~ParsesAsPython(SourceLines(content))
    THEN {Raised("SyntaxError")}
    ELSE {Returned(r) : r \in ParseFileReports(file_path, content, prediction)}

\* analyze_code(file_path): parse_file first, then the router's own detector,
\* scorer, predictor and calculator on the same file, which give what
\* parse_file's gave; the design-pattern summary is left out of the report
AnalyzeCodeOutcomes(file_path, content, prediction) ==
    IF \E o \in ParseFileOutcomes(file_path, content, prediction) : o.kind = "raised"
    THEN ParseFileOutcomes(file_path, content, prediction)
    ELSE {Returned([analysis_complete |-> TRUE] @@ r) :
             r \in ParseFileReports(file_path, content, prediction)}

RouterFiles ==
    [ file_path : {"a.py"},
      content : { <<Run(Plain("pstmt"), 1)>>, <<Run(Plain("pbroken"), 1)>>,
                  <<Run(Plain("pimport"), 1)>>, <<Run(Plain("pmagic"), 1)>>,
                  PyFunction("run", 0, 1), PyFunction("run", 0, 1) \o <<Run(Plain("pbroken"), 1)>>,
                  PyClass("Widget", 16),
                  <<Run(SrcLine("pif", "", "", 1), 1), Run(Plain("pbody"), 1)>>,
                  <<Run(Plain("pimport"), 1)>>
                    \o PyClass("Widget", 16) \o PyClass("Widget", 16)
                    \o Flatten([i \in 1..21 |->
                                   <<Run(SrcLine("pif", "", "", 1), 1), Run(Plain("pbody"), 1)>>])
                    \o <<Run(Plain("pstmt"), 3), Run(Plain("pmagic"), 13)>> } ]
    \cup [file_path : {"c.cpp"}, content : {<<Run(Plain("cnew"), 2)>>}]

\* predict_complexity(features): with no model in memory load_model is tried,
\* which gives False for a missing model file and for one joblib cannot load;
\* answer is what the loaded classifier gives (its own failure included)
predict_complexity(model_file, answer) ==
    LET load_model == model_file \notin {"missing", "unloadable"}
    IN  IF ~load_model THEN NoPrediction ELSE answer

\* ASTParser() or FeatureRouter(), the model file on disk, and the call that
\* is made on it
RouterInit ==
    /\ rt \in [ pc : {"ready"}, call : {"parse_file", "analyze_code"},
                file_path : {"a.py", "c.cpp"}, content : {f.content : f \in RouterFiles},
                model_file : {"missing", "unloadable", "trained"},
                prediction : Predictions, outcome : {Raised("")} ]
    /\ [file_path |-> rt.file_path, content |-> rt.content] \in RouterFiles
    /\ sd = SdIdle
    /\ qa = QaIdle
    /\ td = TdIdle
    /\ dp = DpIdle
    /\ cp = CpIdle
    /\ api = ApiIdle

parse_file ==
    /\ rt.pc = "ready"
    /\ rt.call = "parse_file"
    /\ \E o \in ParseFileOutcomes(rt.file_path, rt.content,
                                   predict_complexity(rt.model_file, rt.prediction)) :
         rt' = [rt EXCEPT !.pc = "done", !.outcome = o]
    /\ UNCHANGED <<qa, td, sd, dp, cp, api>>

analyze_code ==
    /\ rt.pc = "ready"
    /\ rt.call = "analyze_code"
    /\ \E o \in AnalyzeCodeOutcomes(rt.file_path, rt.content,
                                     predict_complexity(rt.model_file, rt.prediction)) :
         rt' = [rt EXCEPT !.pc = "done", !.outcome = o]
    /\ UNCHANGED <<qa, td, sd, dp, cp, api>>

SpecRouter == RouterInit /\ [][parse_file \/ analyze_code]_vars
(***************************************************************************)
(* Properties of the detector                                              *)
(***************************************************************************)
\* C5: two detect_smells calls of one detector on the same unchanged file
\* (same path, st_mtime, st_size and bytes), with any calls on other files in
\* between, give the same sequence of findings; the findings of a call are
\* those of the rules on the content analysed in that call and nothing of an
\* earlier call; and the list returned by an earlier call still holds what it
\* held when it was returned.
C5_SameFileSameFindings ==
    /\ \A i, j \in 1..Len(sd.hist) :
          ( /\ i < j
            /\ sd.hist[i].file_path = sd.hist[j].file_path
            /\ sd.hist[i].st_mtime = sd.hist[j].st_mtime
            /\ sd.hist[i].st_size = sd.hist[j].st_size
            /\ sd.hist[i].bytes = sd.hist[j].bytes )
          => sd.hist[i].findings = sd.hist[j].findings
    /\ \A i \in 1..Len(sd.hist) :
          sd.hist[i].findings
            = RulesFor(Ext(sd.hist[i].file_path), SourceLines(sd.hist[i].content))
    /\ \A i \in 1..Len(sd.hist) : sd.heap[sd.hist[i].returned] = sd.hist[i].findings

\* a file with findings analysed, then another file with other findings, then
\* the first file again, unchanged
C5_Witness ==
    \E i, j, k \in 1..Len(sd.hist) :
        /\ i < j /\ j < k
        /\ sd.hist[i].file_path = sd.hist[k].file_path
        /\ sd.hist[i].st_mtime = sd.hist[k].st_mtime
        /\ sd.hist[i].st_size = sd.hist[k].st_size
        /\ sd.hist[i].bytes = sd.hist[k].bytes
        /\ sd.hist[j].file_path # sd.hist[i].file_path
        /\ sd.hist[i].findings # <<>>
        /\ sd.hist[j].findings # <<>>
        /\ sd.hist[j].findings # sd.hist[i].findings
        /\ sd.hist[i].returned # sd.hist[k].returned

\* C6: parse_file or analyze_code on a Python file with a syntax error
\* returns a report whose findings hold exactly one syntax_error, of severity
\* critical, and which carries the quality score and the debt.
C6_SyntaxErrorIsReported ==
    ( /\ rt.pc = "done"
      /\ Ext(rt.file_path) = ".py"
      /\ ~ParsesAsPython(SourceLines(rt.content)) )
    => /\ rt.outcome.kind = "returned"
       /\ LET smells == rt.outcome.report.code_smells.smells
              errors == {i \in 1..Len(smells) : smells[i].type = "syntax_error"}
          IN  /\ Cardinality(errors) = 1
              /\ \A i \in errors : smells[i].severity = "critical"
       /\ {"quality_score", "technical_debt"} \subseteq DOMAIN rt.outcome.report

\* C7: for a Java class, the methods between its opening brace and the
\* matching closing brace are counted, and when they are more than 15 there
\* is exactly one god_class finding for the class, of severity high, telling
\* that number (16 public methods and no fields: one finding, "16 methods").
C7_GodClassCountsAllMethods ==
    \A c \in 1..Len(sd.hist) :
        Ext(sd.hist[c].file_path) = ".java" =>
            LET lines    == SourceLines(sd.hist[c].content)
                findings == sd.hist[c].findings
            IN  \A h \in 1..Len(lines) :
                    lines[h].t = "jclass" =>
                        LET e       == BraceScan(lines, h + 1, 1, TRUE)
                            last    == IF e = 0 THEN Len(lines) ELSE e
                            methods == Cardinality({i \in (h + 1)..last :
                                                       GodMethodPattern(lines[i])})
                            at      == {i \in 1..Len(findings) :
                                           /\ findings[i].type = "god_class"
                                           /\ findings[i].line = h}
                        IN  methods > 15 =>
                                /\ Cardinality(at) = 1
                                /\ \A i \in at : /\ findings[i].severity = "high"
                                                 /\ findings[i].n = methods

\* C8: a Python function of end_line - start_line + 1 lines gets no
\* long_function finding when that is at most 50, exactly one of severity
\* medium from 51 to 100, and exactly one of severity high above 100.
C8_PythonLongFunctionBoundaries ==
    \A c \in 1..Len(sd.hist) :
        LET lines    == SourceLines(sd.hist[c].content)
            findings == sd.hist[c].findings
        IN  (Ext(sd.hist[c].file_path) = ".py" /\ ParsesAsPython(lines)) =>
                \A h \in 1..Len(lines) :
                    lines[h].t = "pdef" =>
                        LET length == BlockEnd(lines, h) - h + 1
                            at     == {i \in 1..Len(findings) :
                                          /\ findings[i].type = "long_function"
                                          /\ findings[i].line = h}
                        IN  /\ length <= 50 => at = {}
                            /\ (length > 50 /\ length <= 100) =>
                                   /\ Cardinality(at) = 1
                                   /\ \A i \in at : findings[i].severity = "medium"
                            /\ length > 100 =>
                                   /\ Cardinality(at) = 1
                                   /\ \A i \in at : findings[i].severity = "high"

\* a file with functions of 50, 51 and 101 lines has been analysed: nothing
\* for the first, medium for the second, high for the third
C8_Witness ==
    \E c \in 1..Len(sd.hist) :
        LET lines    == SourceLines(sd.hist[c].content)
            findings == sd.hist[c].findings
            severities(h) == {findings[i].severity : i \in {j \in 1..Len(findings) :
                                 findings[j].type = "long_function" /\ findings[j].line = h}}
        IN  /\ Ext(sd.hist[c].file_path) = ".py"
            /\ ParsesAsPython(lines)
            /\ \E h \in 1..Len(lines) :
                  /\ lines[h].t = "pdef" /\ BlockEnd(lines, h) - h + 1 = 50
                  /\ severities(h) = {}
            /\ \E h \in 1..Len(lines) :
                  /\ lines[h].t = "pdef" /\ BlockEnd(lines, h) - h + 1 = 51
                  /\ severities(h) = {"medium"}
            /\ \E h \in 1..Len(lines) :
                  /\ lines[h].t = "pdef" /\ BlockEnd(lines, h) - h + 1 = 101
                  /\ severities(h) = {"high"}

C10_OneLeakPerUnmatchedNew ==
    \A c \in 1..Len(sd.hist) :
        Ext(sd.hist[c].file_path) = ".cpp" =>
            LET lines    == SourceLines(sd.hist[c].content)
                findings == sd.hist[c].findings
                news     == Cardinality({i \in 1..Len(lines) : lines[i].t = "cnew"})
                deletes  == Cardinality({i \in 1..Len(lines) : lines[i].t = "cdelete"})
                leaks    == {i \in 1..Len(findings) :
                                findings[i].type = "potential_memory_leak"}
            IN  /\ Cardinality(leaks) = IF news > deletes THEN news - deletes ELSE 0
                /\ \A i \in leaks : findings[i].severity = "high"

(***************************************************************************)
(* A file analysed, changed, and analysed again by one ASTParser or        *)
(* FeatureRouter                                                           *)
(***************************************************************************)
\* ASTParser() or FeatureRouter(), the call made on it, and the file: a clean
\* Python file of ten lines (statements, with or without one function among
\* them); the classifier is absent or gives O(n^2) with full confidence
CompareInit ==
    /\ rt \in [ pc : {"ready"}, call : {"parse_file", "analyze_code"},
                file_path : {"a.py"}, model_file : {"trained"},
                content : {<<Run(Plain("pstmt"), 10)>>}
                          \cup UNION { { <<Run(Plain("pstmt"), a)>> \o PyFunction("run", 0, b)
                                           \o <<Run(Plain("pstmt"), 9 - a - b)>>
                                         : b \in 1..(9 - a) }
                                       : a \in 0..8 },
                prediction : {p \in Predictions :
                                 p.error \/ ( /\ p.complexity_description = "O(n^2)"
                                              /\ p.confidence = ConfDen )},
                outcome : {Raised("")}, before : {Raised("")}, added : {FALSE} ]
    /\ sd = SdIdle
    /\ qa = QaIdle
    /\ td = TdIdle
    /\ dp = DpIdle
    /\ cp = CpIdle
    /\ api = ApiIdle

\* the file is rewritten with a class of 20 no-op methods put in after its
\* k-th run, where the result still parses, and the same call is made again;
\* before keeps what the first call gave
add_class ==
    /\ rt.pc = "done"
    /\ "added" \in DOMAIN rt
    /\ ~rt.added
    /\ LET changed(k) == SubSeq(rt.content, 1, k) \o PyClass("Widget", 20)
                           \o SubSeq(rt.content, k + 1, Len(rt.content))
       IN  \E k \in {j \in 0..Len(rt.content) : ParsesAsPython(SourceLines(changed(j)))},
              p \in {q \in Predictions :
                        q.error \/ (q.complexity_description = "O(n^2)" /\ q.confidence = ConfDen)} :
             rt' = [rt EXCEPT !.pc = "ready", !.content = changed(k),
                              !.prediction = p, !.before = rt.outcome, !.added = TRUE]
    /\ UNCHANGED <<qa, td, sd, dp, cp, api>>

SpecCompare == CompareInit /\ [][parse_file \/ analyze_code \/ add_class]_vars

\* C11: adding a class with 20 no-op methods to an otherwise clean 10-line
\* Python file strictly decreases the maintainability sub-score and strictly
\* increases debt_breakdown['code_smells'], compared with the file without it.
C11_GodClassLowersMaintainability ==
    (rt.pc = "done" /\ rt.added) =>
        /\ rt.before.kind = "returned"
        /\ rt.outcome.kind = "returned"
        /\ rt.outcome.report.quality_score.maintainability
             < rt.before.report.quality_score.maintainability
        /\ rt.outcome.report.technical_debt.debt_breakdown["code_smells"]
             > rt.before.report.technical_debt.debt_breakdown["code_smells"]

\* both analyses are done: maintainability went from 100 to 88 and the
\* code_smells debt from 0 to 17.5
C11_Witness ==
    /\ rt.pc = "done"
    /\ rt.added
    /\ rt.before.kind = "returned"
    /\ rt.outcome.kind = "returned"
    /\ rt.before.report.quality_score.maintainability = 1000
    /\ rt.outcome.report.quality_score.maintainability = 880
    /\ rt.before.report.technical_debt.debt_breakdown["code_smells"] = 0
    /\ rt.outcome.report.technical_debt.debt_breakdown["code_smells"] = 1750

\* C12: a call made while no trained model can be loaded (the model file is
\* missing or cannot be loaded) ends as it would with a model: nothing is
\* raised but the parser's SyntaxError; the report it returns carries the
\* error object under ml_complexity.prediction, and its complexity debt is
\* min(100, 0.6 * (100 - complexity sub-score)), with nothing from a model.
C12_NoModelStillReports ==
    (rt.pc = "done" /\ rt.model_file \in {"missing", "unloadable"}) =>
        /\ rt.outcome.kind = "raised" => rt.outcome.exception = "SyntaxError"
        /\ rt.outcome.kind = "returned" =>
             LET report == rt.outcome.report
             IN  /\ report.ml_complexity.prediction.error
                 /\ report.technical_debt.debt_breakdown["complexity"]
                      = Min(10000, 6 * (1000 - report.quality_score.complexity))

\* the composite analysis of a two-line file with one if (complexity
\* sub-score 75.0), made with no model file where the classifier would have
\* said O(n^2): complexity debt 15.0
C12_Witness ==
    /\ rt.pc = "done"
    /\ rt.call = "analyze_code"
    /\ rt.model_file = "missing"
    /\ ~rt.prediction.error
    /\ rt.prediction.complexity_description = "O(n^2)"
    /\ rt.outcome.kind = "returned"
    /\ rt.outcome.report.analysis_complete
    /\ rt.outcome.report.ml_complexity.prediction.error
    /\ rt.outcome.report.quality_score.complexity = 750
    /\ rt.outcome.report.technical_debt.debt_breakdown["complexity"] = 1500

\* C13: in every report the level and the trend are those the reported
\* total_debt_score gives (critical from 70, high from 50, medium from 30,
\* low below; increasing from 70, stable from 40, decreasing below), so a
\* report whose level is critical has the trend increasing.
C13_TrendFollowsReportedScore ==
    (rt.pc = "done" /\ rt.outcome.kind = "returned") =>
        LET report == rt.outcome.report
            score == report.technical_debt.total_debt_score
        IN  /\ report.debt_level
                  = (IF score >= 7000 THEN "critical" ELSE IF score >= 5000 THEN "high"
                     ELSE IF score >= 3000 THEN "medium" ELSE "low")
            /\ report.technical_debt.debt_trend
                  = (IF score >= 7000 THEN "increasing" ELSE IF score >= 4000 THEN "stable"
                     ELSE "decreasing")
            /\ report.debt_level = "critical"
                  => report.technical_debt.debt_trend = "increasing"

\* C14 as stated: the code_smells debt is min(100, 100 * (25*critical +
\* 15*high + 8*medium + 3*low + 20*god_class + 12*long_function +
\* 10*duplicate_code + 8*deep_nesting + 5*complex_condition) / 200) over the
\* counts of the summary; a finding of another kind adds its severity only.
C14_SmellDebtListedKindsOnly ==
    td.pc = "done" =>
        LET by_severity == td.code_smells.by_severity
            by_type == td.code_smells.by_type
            debt == 25 * Get(by_severity, "critical", 0) + 15 * Get(by_severity, "high", 0)
                    + 8 * Get(by_severity, "medium", 0) + 3 * Get(by_severity, "low", 0)
                    + 20 * Get(by_type, "god_class", 0) + 12 * Get(by_type, "long_function", 0)
                    + 10 * Get(by_type, "duplicate_code", 0) + 8 * Get(by_type, "deep_nesting", 0)
                    + 5 * Get(by_type, "complex_condition", 0)
        IN  td.metrics.debt_breakdown.code_smells = Min(10000, 50 * debt)

\* C14: the code_smells debt is min(100, 100 * (25*critical + 15*high +
\* 8*medium + 3*low + 20*god_class + 12*long_function + 10*duplicate_code +
\* 8*deep_nesting + 5*complex_condition + 2*others) / 200), where others is
\* the number of findings of any kind that is not listed: each of them adds
\* 2 besides its severity.
C14_SmellDebtWithDefaultPenalty ==
    td.pc = "done" =>
        LET by_severity == td.code_smells.by_severity
            by_type == td.code_smells.by_type
            listed == Get(by_type, "god_class", 0) + Get(by_type, "long_function", 0)
                      + Get(by_type, "duplicate_code", 0) + Get(by_type, "deep_nesting", 0)
                      + Get(by_type, "complex_condition", 0)
            debt == 25 * Get(by_severity, "critical", 0) + 15 * Get(by_severity, "high", 0)
                    + 8 * Get(by_severity, "medium", 0) + 3 * Get(by_severity, "low", 0)
                    + 20 * Get(by_type, "god_class", 0) + 12 * Get(by_type, "long_function", 0)
                    + 10 * Get(by_type, "duplicate_code", 0) + 8 * Get(by_type, "deep_nesting", 0)
                    + 5 * Get(by_type, "complex_condition", 0)
                    + 2 * (td.code_smells.total_smells - listed)
        IN  td.metrics.debt_breakdown.code_smells = Min(10000, 50 * debt)

\* a long function and a deeply nested block (medium), a complex condition
\* (high) and an unused import (low): (8 + 12 + 8 + 8 + 15 + 5 + 3 + 2) / 2 = 30.5
C14_Witness ==
    /\ td.pc = "done"
    /\ td.code_smells.total_smells = 4
    /\ Get(td.code_smells.by_type, "long_function", 0) = 1
    /\ Get(td.code_smells.by_type, "deep_nesting", 0) = 1
    /\ Get(td.code_smells.by_type, "complex_condition", 0) = 1
    /\ Get(td.code_smells.by_type, "unused_import", 0) = 1
    /\ td.metrics.debt_breakdown.code_smells = 3050

\* C15: in a Python file that parses, an if whose test has more than 3
\* boolean operators (and/or) gets exactly one complex_condition finding, of
\* severity medium up to 5 operators and high above; an if with at most 3
\* gets none.
C15_BooleanOperatorsCounted ==
    \A c \in 1..Len(sd.hist) :
        LET lines    == SourceLines(sd.hist[c].content)
            findings == sd.hist[c].findings
        IN  (Ext(sd.hist[c].file_path) = ".py" /\ ParsesAsPython(lines)) =>
                \A h \in 1..Len(lines) :
                    lines[h].t = "pif" =>
                        LET operators == IF lines[h].ret = "and" THEN lines[h].n ELSE 0
                            at == {i \in 1..Len(findings) :
                                      /\ findings[i].type = "complex_condition"
                                      /\ findings[i].line = h}
                        IN  /\ operators <= 3 => at = {}
                            /\ (operators > 3 /\ operators <= 5) =>
                                   /\ Cardinality(at) = 1
                                   /\ \A i \in at : findings[i].severity = "medium"
                            /\ operators > 5 =>
                                   /\ Cardinality(at) = 1
                                   /\ \A i \in at : findings[i].severity = "high"

\* C16: in a Python file that parses, an if with more than 4 enclosing ifs
\* gets exactly one deep_nesting finding on its line, of severity medium up
\* to 6 enclosing ifs and high above.
C16_NestedBlocksReported ==
    \A c \in 1..Len(sd.hist) :
        LET lines    == SourceLines(sd.hist[c].content)
            findings == sd.hist[c].findings
        IN  (Ext(sd.hist[c].file_path) = ".py" /\ ParsesAsPython(lines)) =>
                \A h \in 1..Len(lines) :
                    lines[h].t \in {"pif", "pinner"} =>
                        LET ancestors == Cardinality({j \in 1..(h - 1) :
                                             /\ lines[j].t \in {"pif", "pinner"}
                                             /\ BlockEnd(lines, j) >= h})
                            at == {i \in 1..Len(findings) :
                                      /\ findings[i].type = "deep_nesting"
                                      /\ findings[i].line = h}
                        IN  /\ (ancestors > 4 /\ ancestors <= 6) =>
                                   /\ Cardinality(at) = 1
                                   /\ \A i \in at : findings[i].severity = "medium"
                            /\ ancestors > 6 =>
                                   /\ Cardinality(at) = 1
                                   /\ \A i \in at : findings[i].severity = "high"

\* C17: in a Java or C++ file, a line gets a deep_nesting finding of severity
\* medium exactly when the opening braces minus the closing braces counted
\* from the start of the file through that line exceed 4.
C17_RunningBraceBalance ==
    \A c \in 1..Len(sd.hist) :
        LET lines    == SourceLines(sd.hist[c].content)
            findings == sd.hist[c].findings
            balance(h) == SumSeq([k \in 1..h |-> OpenBraces(lines[k]) - CloseBraces(lines[k])])
        IN  Ext(sd.hist[c].file_path) \in {".java", ".cpp"} =>
                \A h \in 1..Len(lines) :
                    LET at == {i \in 1..Len(findings) :
                                  /\ findings[i].type = "deep_nesting"
                                  /\ findings[i].line = h}
                    IN  IF balance(h) > 4
                        THEN /\ Cardinality(at) = 1
                             /\ \A i \in at : findings[i].severity = "medium"
                        ELSE at = {}

\* C18: in a Python, Java or C++ file whose functions are all written with a
\* header line of their own, the duplicate_code findings on the line of a
\* function are as many as the later functions whose body has a token set
\* overlapping its own by more than 0.7 (Jaccard) and a line count within 2
\* of its own, and all are of severity medium.
C18_JaccardPairsReported ==
    \A c \in 1..Len(sd.hist) :
        LET lines     == SourceLines(sd.hist[c].content)
            findings  == sd.hist[c].findings
            python    == Ext(sd.hist[c].file_path) = ".py"
            functions == {h \in 1..Len(lines) :
                             lines[h].t \in {"pdef", "jmethod", "jmain", "jpkg", "jctor", "cfunc"}}
            closing(h) == BraceScan(lines, h, 0, FALSE)
            body(h)   == IF python THEN (h + 1)..BlockEnd(lines, h)
                         ELSE IF closing(h) = 0 THEN (h + 1)..Len(lines)
                         ELSE (h + 1)..(closing(h) - 1)
        IN  ( /\ Ext(sd.hist[c].file_path) \in {".py", ".java", ".cpp"}
              /\ python => ParsesAsPython(lines)
              /\ \A h \in 1..Len(lines) : lines[h].t # "pmethod" ) =>
                \A h \in functions :
                    LET at == {i \in 1..Len(findings) :
                                  /\ findings[i].type = "duplicate_code"
                                  /\ findings[i].line = h}
                        twins == {g \in functions :
                                     /\ g > h
                                     /\ _code_blocks_are_similar(lines, body(h), body(g))}
                    IN  /\ Cardinality(at) = Cardinality(twins)
                        /\ \A i \in at : findings[i].severity = "medium"

\* C19: a detect_smells call takes its content from the cache only if an
\* earlier call of the detector read a file of the same path, st_mtime and
\* st_size, and the content it then analyses is what the first such call
\* read; a call that does not take it from the cache analyses the bytes of
\* the file.
C19_CacheKeyedByTriple ==
    \A j \in 1..Len(sd.hist) :
        LET same == {i \in 1..(j - 1) :
                        /\ ~sd.hist[i].cached
                        /\ sd.hist[i].file_path = sd.hist[j].file_path
                        /\ sd.hist[i].st_mtime = sd.hist[j].st_mtime
                        /\ sd.hist[i].st_size = sd.hist[j].st_size}
        IN  IF sd.hist[j].cached
            THEN /\ same # {}
                 /\ \A i \in same : sd.hist[j].content = sd.hist[i].bytes
            ELSE sd.hist[j].content = sd.hist[j].bytes

\* C20 as stated: the advice of a category is among the recommendations
\* exactly when the reported debt_breakdown value of that category is above
\* 40, for each of the five categories; what follows the last advice of a
\* category is at most the first 3 quality recommendations; and the list has
\* 1 to 8 entries.
C20_EveryCategoryAbove40 ==
    td.pc = "done" =>
        LET recs == td.metrics.recommendations
            advice == [ code_smells     |-> "Focus on eliminating code smells",
                        complexity      |-> "Reduce code complexity",
                        maintainability |-> "Improve maintainability",
                        documentation   |-> "Add comprehensive documentation",
                        duplication     |-> "Eliminate code duplication" ]
            given == {0} \cup {i \in 1..Len(recs) : \E c \in Categories : recs[i] = advice[c]}
            last == CHOOSE m \in given : \A i \in given : i <= m
            tail == SubSeq(recs, last + 1, Len(recs))
            quality == td.quality_score.recommendations
        IN  /\ \A c \in Categories :
                  (\E i \in 1..Len(recs) : recs[i] = advice[c])
                      <=> td.metrics.debt_breakdown[c] > 4000
            /\ last > 0 => /\ Len(tail) <= 3
                           /\ Len(tail) <= Len(quality)
                           /\ tail = SubSeq(quality, 1, Len(tail))
            /\ Len(recs) >= 1
            /\ Len(recs) <= 8

\* C20: the recommendations are, in this order, one line on the total debt if
\* it is 30 or more, the advice of each category whose debt (before it is
\* rounded for the report) is above its threshold, 40 for code_smells,
\* complexity, maintainability and documentation and 30 for duplication, and
\* the first 3 quality recommendations, cut to 8 entries; the fallback
\* message alone if there is none of these; so the list has 1 to 8 entries.
C20_DuplicationAbove30 ==
    td.pc = "done" =>
        LET recs == td.metrics.recommendations
            advice == [ code_smells     |-> "Focus on eliminating code smells",
                        complexity      |-> "Reduce code complexity",
                        maintainability |-> "Improve maintainability",
                        documentation   |-> "Add comprehensive documentation",
                        duplication     |-> "Eliminate code duplication" ]
            threshold(c) == IF c = "duplication" THEN 30 ELSE 40
            order == <<"code_smells", "complexity", "maintainability", "documentation",
                       "duplication">>
            above == SelectSeq(order, LAMBDA c : td.breakdown[c] > threshold(c) * DebtUnit)
            headline == IF td.total >= 30 * 100 * DebtUnit THEN 1 ELSE 0
            quality == td.quality_score.recommendations
            taken == Min(Min(3, Len(quality)), 8 - headline - Len(above))
        IN  /\ \A c \in Categories :
                  (\E i \in 1..Len(recs) : recs[i] = advice[c])
                      <=> td.breakdown[c] > threshold(c) * DebtUnit
            /\ Len(recs) >= 1
            /\ Len(recs) <= 8
            /\ IF headline + Len(above) + Len(quality) = 0
               THEN recs = <<"Code quality is good! Maintain current standards.">>
               ELSE /\ Len(recs) = headline + Len(above) + taken
                    /\ \A k \in 1..Len(above) : recs[headline + k] = advice[above[k]]
                    /\ \A k \in 1..taken : recs[headline + Len(above) + k] = quality[k]

\* a report with the duplication advice at a reported duplication debt of 32
\* and at least one more recommendation
C20_Witness ==
    /\ td.pc = "done"
    /\ td.metrics.debt_breakdown.duplication = 3200
    /\ \E i \in 1..Len(td.metrics.recommendations) :
          td.metrics.recommendations[i] = "Eliminate code duplication"
    /\ Len(td.metrics.recommendations) >= 2

\* C21: every entry of priority_issues is of severity critical or high, and
\* is a critical or high finding of the summary or stands for a quality
\* issue naming "Critical" or "High"; no high entry is ahead of a critical
\* one; there are at most 10 entries; and a high entry is kept only if every
\* critical finding of the summary is kept.
C21_PriorityIssuesCriticalFirst ==
    td.pc = "done" =>
        LET issues   == td.metrics.priority_issues
            smells   == td.code_smells.smells
            critical == {i \in 1..Len(smells) : smells[i].severity = "critical"}
            kept(sev) == {i \in 1..Len(issues) : issues[i].severity = sev}
        IN  /\ \A i \in 1..Len(issues) :
                  /\ issues[i].severity \in {"critical", "high"}
                  /\ \/ \E k \in 1..Len(smells) : smells[k] = issues[i]
                     \/ /\ issues[i].type = "quality_issue"
                        /\ issues[i].severity = "high"
                        /\ \E k \in 1..Len(td.quality_score.issues) :
                              ContainsCriticalOrHigh(td.quality_score.issues[k])
            /\ \A i, j \in 1..Len(issues) :
                  i < j => ~(issues[i].severity = "high" /\ issues[j].severity = "critical")
            /\ Len(issues) <= 10
            /\ kept("high") # {} => Cardinality(kept("critical")) = Cardinality(critical)

\* 11 high findings ahead of 2 critical ones and two quality issues: the 2
\* critical ones and 8 high ones are reported
C21_Witness ==
    /\ td.pc = "done"
    /\ Len(td.code_smells.smells) = 13
    /\ td.code_smells.smells[1].severity = "high"
    /\ td.code_smells.smells[13].severity = "critical"
    /\ Len(td.metrics.priority_issues) = 10
    /\ td.metrics.priority_issues[2].severity = "critical"
    /\ td.metrics.priority_issues[3].severity = "high"

\* C22 as stated: with r the comment lines over the total lines, the
\* documentation sub-score is 100 for r >= 0.20, 90 for r >= 0.15, 80 for
\* r >= 0.10, 60 for r >= 0.05, 40 for r >= 0.02 and 20 for every other file,
\* the empty file included; and the comment lines are at most the lines.
C22_EmptyFileScores20 ==
    qa.pc = "done" =>
        LET total   == qa.total_lines
            comment == _count_documentation_lines(qa.lines)
            bucket  == IF total > 0 /\ 100 * comment >= 20 * total THEN 100
                       ELSE IF total > 0 /\ 100 * comment >= 15 * total THEN 90
                       ELSE IF total > 0 /\ 100 * comment >= 10 * total THEN 80
                       ELSE IF total > 0 /\ 100 * comment >= 5 * total THEN 60
                       ELSE IF total > 0 /\ 100 * comment >= 2 * total THEN 40
                       ELSE 20
        IN  /\ qa.score.documentation = 10 * bucket
            /\ comment <= total

\* C22: the same for every file that has a line; a file without lines
\* scores 0.
C22_EmptyFileScores0 ==
    qa.pc = "done" =>
        LET total   == qa.total_lines
            comment == _count_documentation_lines(qa.lines)
            bucket  == IF total = 0 THEN 0
                       ELSE IF 100 * comment >= 20 * total THEN 100
                       ELSE IF 100 * comment >= 15 * total THEN 90
                       ELSE IF 100 * comment >= 10 * total THEN 80
                       ELSE IF 100 * comment >= 5 * total THEN 60
                       ELSE IF 100 * comment >= 2 * total THEN 40
                       ELSE 20
        IN  /\ qa.score.documentation = 10 * bucket
            /\ comment <= total

\* a file of 20 lines, 3 of them comments, scored 90
C22_Witness ==
    /\ qa.pc = "done"
    /\ qa.total_lines = 20
    /\ _count_documentation_lines(qa.lines) = 3
    /\ qa.score.documentation = 900

(***************************************************************************)
(* The design pattern detector (design_pattern_detector.py)                *)
(*                                                                         *)
(* A text is kept as what the searches of _extract_code_features find in   *)
(* it: the set of the searches of the six _detect_*_pattern functions that *)
(* match (hits), and the counts the heuristic blend reads.  An indicator   *)
(* is an integer count of tenths.  A category score before normalising is  *)
(* an integer count of 1/(6000 * max(totalMethodsQty, 1)); a reported      *)
(* score (round(x, 3)) is a count of thousandths.                          *)
(***************************************************************************)
Code(language, hits, decorators, implements, interfaces, methods, cbo) ==
    [ language |-> language, hits |-> hits, decorators |-> decorators,
      implements |-> implements, interfaces |-> interfaces, methods |-> methods,
      cbo |-> cbo ]

\* 1 where the search c matches the text, else 0
Hit(code, c) == IF c \in code.hits THEN 1 ELSE 0

_detect_singleton_pattern(code, language) ==
    Min(IF language = "python"
        THEN 3 * Hit(code, "def __new__(") + 3 * Hit(code, "_instance = None")
             + 4 * Hit(code, "def get_instance(") + 3 * Hit(code, "class X(metaclass")
        ELSE 3 * Hit(code, "private X()") + 3 * Hit(code, "private static X instance")
             + 4 * Hit(code, "static X getInstance"),
        10)

_detect_factory_pattern(code) ==
    Min(3 * Hit(code, "Factory") + 3 * Hit(code, "create(")
        + 2 * Hit(code, "return new X(") + 2 * Hit(code, "case x: twice"), 10)

_detect_builder_pattern(code, language) ==
    Min(3 * Hit(code, "Builder") + 3 * Hit(code, "build()")
        + (IF language = "python"
           THEN 2 * Hit(code, "return self") + 2 * Hit(code, "def with_x( thrice")
           ELSE 2 * Hit(code, "return this;") + 2 * Hit(code, "withX( thrice")),
        10)

_detect_observer_pattern(code) ==
    Min(3 * Hit(code, "Observer") + 3 * Hit(code, "addObserver")
        + 2 * Hit(code, "notify") + 2 * Hit(code, "List<Observer>"), 10)

_detect_strategy_pattern(code) ==
    Min(4 * Hit(code, "Strategy") + 3 * Hit(code, "interface X { t m(); }")
        + 3 * Hit(code, "setStrategy"), 10)

_detect_decorator_pattern(code, language) ==
    Min(4 * Hit(code, "Decorator")
        + (IF language = "python"
           THEN (IF code.decorators > 0 THEN Min(3, code.decorators) ELSE 0)
                + 2 * Hit(code, "def __init__(self, x)") + 2 * Hit(code, "self._x = y")
           ELSE 2 * Hit(code, "public X(T x)") + 2 * Hit(code, "this.x = y;")
                + 2 * Hit(code, "implements X, private T x;")),
        10)

\* the features _predict_with_heuristics reads
_extract_code_features(code, language) ==
    [ totalMethodsQty |-> code.methods,
      cbo |-> Min(code.cbo, 50),
      interfaceCount |-> code.interfaces,
      implementsCount |-> code.implements,
      singletonIndicator |-> _detect_singleton_pattern(code, language),
      factoryIndicator |-> _detect_factory_pattern(code),
      builderIndicator |-> _detect_builder_pattern(code, language),
      observerIndicator |-> _detect_observer_pattern(code),
      strategyIndicator |-> _detect_strategy_pattern(code),
      decoratorIndicator |-> _detect_decorator_pattern(code, language) ]

\* the three values a blend is taken over, and the three blends, before
\* they are normalised
HeuristicIndicators(features) ==
    LET m == Max(features.totalMethodsQty, 1)
    IN  [ Creational |-> << 600 * m * features.singletonIndicator,
                            600 * m * features.factoryIndicator,
                            600 * m * features.builderIndicator >>,
          Structural |-> << 600 * m * features.decoratorIndicator,
                            3000 * features.implementsCount,
                            90 * m * Min(features.cbo, 20) >>,
          Behavioral |-> << 600 * m * features.observerIndicator,
                            600 * m * features.strategyIndicator,
                            3000 * features.interfaceCount >> ]

HeuristicScores(features) ==
    LET ind == HeuristicIndicators(features)
        max(s) == Max(s[1], Max(s[2], s[3]))
    IN  [ Creational |-> (7 * max(ind.Creational) + SumSeq(ind.Creational)) \div 10,
          Structural |-> (18 * max(ind.Structural) + 4 * SumSeq(ind.Structural)) \div 30,
          Behavioral |-> (18 * max(ind.Behavioral) + 4 * SumSeq(ind.Behavioral)) \div 30 ]

\* the results _predict_with_heuristics can give: the scores are rounded as
\* RoundDiv says, and where two categories have the same exact score the
\* last bit of either float decides which of them max() takes.  by records
\* which of the two prediction functions built the result.
NormalisedScores(pattern_scores, total) ==
    LET largest == {k \in DOMAIN pattern_scores :
                       \A j \in DOMAIN pattern_scores : pattern_scores[j] <= pattern_scores[k]}
    IN  { [ predicted_category |-> predicted, confidence |-> scores[predicted],
            category_scores |-> scores, by |-> "heuristic" ]
          : predicted \in largest,
            scores \in [ Creational : RoundDiv(1000 * pattern_scores.Creational, total),
                         Structural : RoundDiv(1000 * pattern_scores.Structural, total),
                         Behavioral : RoundDiv(1000 * pattern_scores.Behavioral, total) ] }

UniformScores ==
    [ predicted_category |-> "Behavioral", confidence |-> 340,
      category_scores |-> [Creational |-> 330, Structural |-> 330, Behavioral |-> 340],
      by |-> "heuristic" ]

\* (a variant that falls back where the six pattern indicators are zero)
_predict_with_heuristics_SixIndicators(features) ==
    LET pattern_scores == HeuristicScores(features)
        total == pattern_scores.Creational + pattern_scores.Structural
                 + pattern_scores.Behavioral
    IN  IF features.singletonIndicator + features.factoryIndicator
           + features.builderIndicator + features.observerIndicator
           + features.strategyIndicator + features.decoratorIndicator > 0
        THEN NormalisedScores(pattern_scores, total)
        ELSE {UniformScores}

_predict_with_heuristics(features) ==
    LET pattern_scores == HeuristicScores(features)
        total == pattern_scores.Creational + pattern_scores.Structural
                 + pattern_scores.Behavioral
    IN  IF total > 0 THEN NormalisedScores(pattern_scores, total)
        ELSE {UniformScores}

\* Inputs: texts in which at most MaxHits of the searches match
MaxHits == 2

\* the searches made in a text of the language
Searches(language) ==
    { "Factory", "create(", "return new X(", "case x: twice", "Builder", "build()",
      "Observer", "addObserver", "notify", "List<Observer>",
      "Strategy", "interface X { t m(); }", "setStrategy", "Decorator" }
    \cup ( IF language = "python"
           THEN { "def __new__(", "_instance = None", "def get_instance(",
                  "class X(metaclass", "return self", "def with_x( thrice",
                  "def __init__(self, x)", "self._x = y" }
           ELSE { "private X()", "private static X instance", "static X getInstance",
                  "return this;", "withX( thrice", "public X(T x)", "this.x = y;",
                  "implements X, private T x;" } )

\* the sets of at most n of them
RECURSIVE HitSets(_, _)
HitSets(n, language) ==
    IF n = 0 THEN {{}}
    ELSE LET fewer == HitSets(n - 1, language)
         IN  fewer \cup {h \cup {x} : h \in fewer, x \in Searches(language)}

\* which counts go with which matches: a def makes a method, a class with a
\* base or an implements clause is counted by implementsCount, an interface
\* by interfaceCount, and in Python an ABC subclass is a class with a base
PatternCodesOf(l) ==
    { c \in { Code(l, h, d, i, n, m, cbo) :
                h \in HitSets(MaxHits, l), d \in IF l = "python" THEN {0, 1} ELSE {0},
                i \in {0, 1}, n \in {0, 1}, m \in {0, 2}, cbo \in {0, 7, 30} } :
        IF l = "python"
        THEN /\ c.hits \cap {"def __new__(", "def get_instance(", "def with_x( thrice",
                             "def __init__(self, x)"} # {} => c.methods > 0
             /\ "class X(metaclass" \in c.hits => c.implements > 0
             /\ c.interfaces <= c.implements
        ELSE /\ "implements X, private T x;" \in c.hits => c.implements > 0
             /\ "interface X { t m(); }" \in c.hits => c.interfaces > 0 }

PatternCodes == PatternCodesOf("python") \cup PatternCodesOf("java")

\* DesignPatternDetector() with no model loaded, about to predict for a text
HeuristicInit ==
    /\ \E c \in PatternCodes : dp = [pc |-> "ready", code |-> c]
    /\ qa = QaIdle
    /\ td = TdIdle
    /\ sd = SdIdle
    /\ rt = RtIdle
    /\ cp = CpIdle
    /\ api = ApiIdle

\* predict_pattern(code_content, language) where no model is loaded
predict_with_heuristics ==
    /\ dp.pc = "ready"
    /\ \E r \in _predict_with_heuristics(_extract_code_features(dp.code, dp.code.language)) :
          dp' = [pc |-> "done", code |-> dp.code,
                 features |-> _extract_code_features(dp.code, dp.code.language),
                 prediction |-> r]
    /\ UNCHANGED <<qa, td, sd, rt, cp, api>>

SpecHeuristic == HeuristicInit /\ [][predict_with_heuristics]_vars

NoDisk == [preprocessing |-> [written |-> FALSE], model |-> FALSE]

\* DesignPatternDetector(model_path)
NewDetector == [model |-> FALSE, _model_loaded |-> FALSE, feature_columns |-> FALSE,
                scaler |-> "unfitted"]

\* what a classifier that was fitted on two pattern labels answers
MlResults ==
    { [ predicted_category |-> c, confidence |-> p,
        category_scores |-> [Singleton |-> IF c = "Singleton" THEN p ELSE 1000 - p,
                             Observer |-> IF c = "Observer" THEN p ELSE 1000 - p],
        by |-> "classifier" ]
      : c \in {"Singleton", "Observer"}, p \in {600, 900} }

\* X is None without feature_columns; scaler.transform raises on a scaler
\* that was never fitted, and the except clause takes the heuristics
_predict_with_ml(self, features) ==
    IF ~self.feature_columns THEN _predict_with_heuristics(features)
    ELSE IF self.scaler = "unfitted" THEN _predict_with_heuristics(features)
    ELSE MlResults

predict_pattern(self, code) ==
    LET features == _extract_code_features(code, code.language)
    IN  IF self._model_loaded /\ self.model THEN _predict_with_ml(self, features)
        ELSE _predict_with_heuristics(features)

\* the summaries get_pattern_summary can return; by is carried along from
\* the prediction
PatternSummaries(self, code) ==
    { [ predicted_category |-> prediction.predicted_category,
        confidence |-> prediction.confidence,
        category_probabilities |-> prediction.category_scores,
        analysis_method |-> IF self._model_loaded THEN "deep_learning" ELSE "heuristic",
        by |-> prediction.by ]
      : prediction \in predict_pattern(self, code) }

\* the files save_model leaves
SavedBy(self, disk) ==
    [ preprocessing |-> [written |-> TRUE, scaler |-> self.scaler,
                         feature_columns |-> self.feature_columns],
      model |-> disk.model \/ self.model ]

\* the detector train_model leaves, by what the data directory holds:
\* no Dp_trainset (returns False at once), a test set with a label the
\* training set lacks (label_encoder.transform raises after feature_columns
\* was set), or a usable data set
Trained(self, data) ==
    CASE data = "missing" -> self
      [] data = "unseen_label" -> [self EXCEPT !.feature_columns = TRUE]
      [] OTHER -> [model |-> TRUE, _model_loaded |-> TRUE, feature_columns |-> TRUE,
                   scaler |-> "fitted"]

\* the detector load_model leaves
Loaded(self, disk) ==
    IF ~disk.preprocessing.written THEN self
    ELSE [ model |-> self.model \/ disk.model,
           _model_loaded |-> self._model_loaded \/ disk.model,
           feature_columns |-> disk.preprocessing.feature_columns,
           scaler |-> disk.preprocessing.scaler ]

\* the texts the summaries are asked for
SampleCodes ==
    { Code("java", h, 0, 0, 0, 2, cbo) : h \in {{}, {"Factory"}, {"Observer"}, {"Decorator"}},
                                         cbo \in {0, 7, 30} }

NoSummary == [analysis_method |-> "none"]

PatternInit ==
    /\ dp = [pc |-> "ready", self |-> NewDetector, disk |-> NoDisk, summary |-> NoSummary]
    /\ qa = QaIdle
    /\ td = TdIdle
    /\ sd = SdIdle
    /\ rt = RtIdle
    /\ cp = CpIdle
    /\ api = ApiIdle

\* another DesignPatternDetector(model_path) on the same model_path
DesignPatternDetector ==
    /\ dp.pc = "ready"
    /\ dp' = [dp EXCEPT !.self = NewDetector, !.summary = NoSummary]
    /\ UNCHANGED <<qa, td, sd, rt, cp, api>>

train_model ==
    /\ dp.pc = "ready"
    /\ \E data \in {"missing", "unseen_label", "good"} :
          dp' = [dp EXCEPT !.self = Trained(dp.self, data),
                           !.disk = IF data = "good"
                                    THEN SavedBy(Trained(dp.self, data), dp.disk)
                                    ELSE dp.disk,
                           !.summary = NoSummary]
    /\ UNCHANGED <<qa, td, sd, rt, cp, api>>

save_model ==
    /\ dp.pc = "ready"
    /\ dp' = [dp EXCEPT !.disk = SavedBy(dp.self, dp.disk), !.summary = NoSummary]
    /\ UNCHANGED <<qa, td, sd, rt, cp, api>>

load_model ==
    /\ dp.pc = "ready"
    /\ dp' = [dp EXCEPT !.self = Loaded(dp.self, dp.disk), !.summary = NoSummary]
    /\ UNCHANGED <<qa, td, sd, rt, cp, api>>

get_pattern_summary ==
    /\ dp.pc = "ready"
    /\ \E code \in SampleCodes : \E s \in PatternSummaries(dp.self, code) :
          dp' = [dp EXCEPT !.summary = s]
    /\ UNCHANGED <<qa, td, sd, rt, cp, api>>

SpecPattern ==
    PatternInit /\ [][DesignPatternDetector \/ train_model \/ save_model \/ load_model
                      \/ get_pattern_summary]_vars

\* C29 (as stated): analysis_method is "deep_learning" only where the
\* classifier produced the returned prediction, and "heuristic" wherever the
\* heuristic blend produced it
C29_MethodNamesTheProducer ==
    dp.summary # NoSummary =>
        /\ dp.summary.analysis_method = "deep_learning" => dp.summary.by = "classifier"
        /\ dp.summary.by = "heuristic" => dp.summary.analysis_method = "heuristic"

\* C24: in a C or C++ file, the end line _find_function_end_cpp gives for a
\* function whose braces close is the line of the closing brace that matches
\* the function's own opening brace, so the function gets a long_function
\* finding exactly when that many lines (closing line - header line + 1)
\* exceed 50, and the finding tells that length.
C24_EndIsMatchingBrace ==
    \A c \in 1..Len(sd.hist) :
        LET lines    == SourceLines(sd.hist[c].content)
            findings == sd.hist[c].findings
        IN  Ext(sd.hist[c].file_path) = ".cpp" =>
                \A h \in {i \in 1..Len(lines) : FunctionPattern(lines[i])} :
                    LET closing == BraceScan(lines, h, 0, FALSE)
                        at == {i \in 1..Len(findings) :
                                  /\ findings[i].type = "long_function"
                                  /\ findings[i].line = h}
                    IN  closing # 0 =>
                            /\ _find_function_end_cpp(lines, h) = closing
                            /\ IF closing - h + 1 > 50
                               THEN /\ Cardinality(at) = 1
                                    /\ \A i \in at : findings[i].n = closing - h + 1
                               ELSE at = {}

\* C30: the readability sub-score of a file is never below 50: at most two
\* indentation issues are counted, the four deductions together take at
\* most 15 + 10 + 15 + 10 points from 100, and so the score lies in
\* [50, 100] and is never held up by the clamp at 0.
C30_ReadabilityAtLeast50 ==
    qa.pc = "done" =>
        /\ _check_indentation_consistency(qa.lines) <= 2
        /\ qa.raw.readability >= 50 * qa.raw.den
        /\ qa.raw.readability <= 100 * qa.raw.den
        /\ qa.score.readability >= 500
        /\ qa.score.readability <= 1000

\* a file that takes all four deductions to their caps: 10 of its 11 lines
\* are long, it mixes a tab with spaces over six indentation widths, and has
\* 10 naming and 20 spacing issues; it scores exactly 50
C30_Witness ==
    /\ qa.pc = "done"
    /\ qa.total_lines = 11
    /\ _check_indentation_consistency(qa.lines) = 2
    /\ _check_naming_conventions(qa.lines) = 10
    /\ _check_spacing_issues(qa.lines) = 20
    /\ qa.score.readability = 500

(***************************************************************************)
(* The complexity predictor with its model file (ml_complexity_predictor)  *)
(*                                                                         *)
(* A predictor (self) holds model: "none", a fitted classifier, or the     *)
(* dict that save_model writes; fitted tells whether its imputer, scaler   *)
(* and label_encoder were fitted.  disk is the file at model_path.         *)
(***************************************************************************)
\* ComplexityPredictor(model_path)
NewPredictor == [model |-> "none", fitted |-> FALSE]

NoModelFile == [written |-> FALSE]

\* joblib.dump(model_data, self.model_path): a dict of the model and the
\* preprocessing objects
ModelData(self) ==
    [written |-> TRUE, legacy |-> FALSE, model |-> self.model, fitted |-> self.fitted]

\* a file of the old format: the pickled classifier alone
LegacyFile == [written |-> TRUE, legacy |-> TRUE, model |-> "classifier", fitted |-> FALSE]

\* train_model(csv_path, force_retrain=force_retrain): the predictor and the
\* file it leaves and the value it returns.  An existing file is loaded
\* whole into self.model; else the data set is read (None if it cannot be),
\* the preprocessing and the best classifier are fitted, and save_model is
\* called.
ComplexityPredictor_train_model(self, disk, csv, force_retrain) ==
    IF ~force_retrain /\ disk.written
    THEN [self |-> [self EXCEPT !.model = IF disk.legacy THEN disk.model ELSE "dict"],
          disk |-> disk, returned |-> TRUE]
    ELSE IF csv = "missing"
    THEN [self |-> self, disk |-> disk, returned |-> FALSE]
    ELSE LET best == [model |-> "classifier", fitted |-> TRUE]
         IN  [self |-> best, disk |-> ModelData(best), returned |-> TRUE]

ComplexityPredictor_save_model(self, disk) ==
    IF self.model # "none" THEN ModelData(self) ELSE disk

ComplexityPredictor_load_model(self, disk) ==
    IF disk.written
    THEN [self |-> IF disk.legacy THEN [self EXCEPT !.model = disk.model]
                   ELSE [model |-> disk.model, fitted |-> disk.fitted],
          returned |-> TRUE]
    ELSE [self |-> self, returned |-> FALSE]

\* predict_complexity(features): the predictor it leaves and what it
\* returns; answer is what a fitted classifier gives.  imputer.transform
\* raises where the imputer was never fitted and a dict has no predict: both
\* end in the except clause, which returns an error object.
ComplexityPredictor_predict_complexity(self, disk, answer) ==
    LET now == IF self.model = "none" THEN ComplexityPredictor_load_model(self, disk).self
               ELSE self
    IN  [ self |-> now,
          returned |-> IF now.model = "none" THEN NoPrediction
                       ELSE IF ~now.fitted \/ now.model # "classifier" THEN NoPrediction
                       ELSE answer ]

\* a predictor beside no model file or one of the old format; trained tells whether a train_model
\* call on this predictor has returned True, call and returned are the last
\* call made and what it returned
PredictorInit ==
    /\ \E disk \in {NoModelFile, LegacyFile} :
          cp = [pc |-> "ready", self |-> NewPredictor, disk |-> disk, trained |-> FALSE,
                call |-> [name |-> "ComplexityPredictor"], returned |-> FALSE]
    /\ qa = QaIdle
    /\ td = TdIdle
    /\ sd = SdIdle
    /\ rt = RtIdle
    /\ dp = DpIdle
    /\ api = ApiIdle

\* another ComplexityPredictor(model_path) on the same model_path
NewComplexityPredictor ==
    /\ cp.pc = "ready"
    /\ cp' = [cp EXCEPT !.self = NewPredictor, !.trained = FALSE,
                        !.call = [name |-> "ComplexityPredictor"], !.returned = FALSE]
    /\ UNCHANGED <<qa, td, sd, rt, dp, api>>

TrainComplexityModel ==
    /\ cp.pc = "ready"
    /\ \E csv \in {"missing", "dataset"}, force_retrain \in BOOLEAN :
          LET r == ComplexityPredictor_train_model(cp.self, cp.disk, csv, force_retrain)
          IN  cp' = [cp EXCEPT !.self = r.self, !.disk = r.disk,
                               !.trained = @ \/ r.returned,
                               !.call = [name |-> "train_model", csv_path |-> csv,
                                          force_retrain |-> force_retrain],
                               !.returned = r.returned]
    /\ UNCHANGED <<qa, td, sd, rt, dp, api>>

SaveComplexityModel ==
    /\ cp.pc = "ready"
    /\ cp' = [cp EXCEPT !.disk = ComplexityPredictor_save_model(cp.self, cp.disk),
                        !.call = [name |-> "save_model"], !.returned = FALSE]
    /\ UNCHANGED <<qa, td, sd, rt, dp, api>>

LoadComplexityModel ==
    /\ cp.pc = "ready"
    /\ LET r == ComplexityPredictor_load_model(cp.self, cp.disk)
       IN  cp' = [cp EXCEPT !.self = r.self, !.call = [name |-> "load_model"],
                           !.returned = r.returned]
    /\ UNCHANGED <<qa, td, sd, rt, dp, api>>

PredictComplexity ==
    /\ cp.pc = "ready"
    /\ \E answer \in Predictions \ {NoPrediction} :
          LET r == ComplexityPredictor_predict_complexity(cp.self, cp.disk, answer)
          IN  cp' = [cp EXCEPT !.self = r.self, !.call = [name |-> "predict_complexity"],
                               !.returned = r.returned]
    /\ UNCHANGED <<qa, td, sd, rt, dp, api>>

SpecPredictor ==
    PredictorInit /\ [][NewComplexityPredictor \/ TrainComplexityModel \/ SaveComplexityModel
                        \/ LoadComplexityModel \/ PredictComplexity]_vars

\* C25: a predict_complexity call on a predictor on which a train_model call
\* has returned True returns a prediction, not an error object.
C25_TrainedPredictorPredicts ==
    (cp.call.name = "predict_complexity" /\ cp.trained) => ~cp.returned.error

(***************************************************************************)
(* The HTTP API: analysis endpoints (backend/app/main.py)                  *)
(***************************************************************************)
\* an Optional[...] argument: None, or the value that was sent
None == <<>>

Some(value) == <<value>>

\* bool(x) of an Optional[int] and of an Optional[str]
TruthyInt(x) == x # None /\ x[1] # 0

TruthyStr(x) == x # None /\ x[1] # ""

\* FileHandler.SUPPORTED_EXTENSIONS
SUPPORTED_EXTENSIONS == {".java", ".py", ".js", ".cpp", ".cs", ".php"}

\* os.path.splitext(filename)[1]; an upload's name is kept as root and extension
splitext(filename) == filename.ext

\* str.lower() on the extensions that are uploaded
lower(ext) ==
    CASE ext = ".PY" -> ".py" [] ext = ".Java" -> ".java" [] ext = ".TXT" -> ".txt"
      [] OTHER -> ext

\* what the client receives: AnalysisResponse(success=True, data=result, ...)
\* with status 200, or the error response FastAPI makes of an HTTPException
\* that leaves the handler
AnalysisResponse(data) == [status_code |-> 200, success |-> TRUE, data |-> data]

HTTPException(status_code) == [status_code |-> status_code, success |-> FALSE, data |-> <<>>]

\* feature_router.analyze_code was not reached by the request
NotCalled == [kind |-> "not_called", exception |-> "", report |-> <<>>]

\* what feature_router.analyze_code(...) does for the request
AnalysisOutcomes ==
    {Returned([analysis_complete |-> TRUE, language |-> language]) :
         language \in {"Python", "Java"}}
    \cup {Raised("SyntaxError"), Raised("FileNotFoundError")}

\* the except clauses of analyze_file_endpoint: FileNotFoundError first, then
\* Exception, which every other exception is, HTTPException included
ExceptFileNotFoundThenException(exception) ==
    IF exception = "FileNotFoundError" THEN HTTPException(404) ELSE HTTPException(500)

\* the only except clause of analyze_content_endpoint and analyze_file_by_path
ExceptException(exception) == HTTPException(500)

\* POST /api/analyze/file. files are the paths that exist on disk. The name
\* current_user is bound nowhere in the handler or the module, so evaluating
\* "project_id and current_user" with a truthy project_id raises NameError; the
\* finally clause removes the temporary copy on every way out of the inner try
analyze_file_endpoint(file, project_id, analysis, files, counter) ==
    LET file_ext == lower(splitext(file.filename))
        tmp_path == <<"tmp", file_ext>>
        saved == files \cup {tmp_path}
        cleaned == saved \ {tmp_path}
    IN  IF file_ext \notin SUPPORTED_EXTENSIONS
        THEN [ response |-> ExceptFileNotFoundThenException("HTTPException"),
               files |-> files, analysis_counter |-> counter, analysis |-> NotCalled ]
        ELSE IF analysis.kind = "raised"
        THEN [ response |-> ExceptFileNotFoundThenException(analysis.exception),
               files |-> cleaned, analysis_counter |-> counter, analysis |-> analysis ]
        ELSE IF TruthyInt(project_id)
        THEN [ response |-> ExceptFileNotFoundThenException("NameError"),
               files |-> cleaned, analysis_counter |-> counter, analysis |-> analysis ]
        ELSE [ response |-> AnalysisResponse(analysis.report),
               files |-> cleaned, analysis_counter |-> counter, analysis |-> analysis ]

\* POST /api/analyze/content
analyze_content_endpoint(request, analysis, files) ==
    IF TruthyStr(request.file_path)
    THEN IF request.file_path[1] \notin files
         THEN [response |-> ExceptException("HTTPException"), analysis |-> NotCalled]
         ELSE IF analysis.kind = "raised"
         THEN [response |-> ExceptException(analysis.exception), analysis |-> analysis]
         ELSE [response |-> AnalysisResponse(analysis.report), analysis |-> analysis]
    ELSE IF TruthyStr(request.content)
    THEN IF analysis.kind = "raised"
         THEN [response |-> ExceptException(analysis.exception), analysis |-> analysis]
         ELSE [response |-> AnalysisResponse(analysis.report), analysis |-> analysis]
    ELSE [response |-> ExceptException("HTTPException"), analysis |-> NotCalled]

\* GET /api/analyze/{file_path}
analyze_file_by_path(file_path, analysis, files) ==
    IF file_path \notin files
    THEN [response |-> ExceptException("HTTPException"), analysis |-> NotCalled]
    ELSE IF analysis.kind = "raised"
    THEN [response |-> ExceptException(analysis.exception), analysis |-> analysis]
    ELSE [response |-> AnalysisResponse(analysis.report), analysis |-> analysis]

\* the uploads, project ids, paths and bodies that are sent
Uploads ==
    [ filename : [ root : {"main"},
                   ext : {".py", ".PY", ".java", ".Java", ".js", ".cpp", ".cs", ".php",
                          ".txt", ".TXT", ""} ] ]

MaxProjectId == 2

ProjectIds == {None} \cup {Some(id) : id \in 0..MaxProjectId}

Paths == {"src/a.py", "src/b.java"}

FileAnalysisRequests ==
    [ file_path : {None, Some("")} \cup {Some(p) : p \in Paths},
      content : {None, Some(""), Some("x = 1")} ]

NoRequest == [file_path |-> None, content |-> None]

NoUpload == [filename |-> [root |-> "", ext |-> ""]]

\* the server after start-up, with some of the paths on disk
AnalyzeInit ==
    /\ api \in [ pc : {"serving"}, files : SUBSET Paths, analysis_counter : {1},
                 call : {[ name |-> "", file |-> NoUpload, project_id |-> None,
                           request |-> NoRequest, file_path |-> "",
                           analysis |-> NotCalled ]},
                 response : {HTTPException(0)} ]
    /\ qa = QaIdle
    /\ td = TdIdle
    /\ sd = SdIdle
    /\ rt = RtIdle
    /\ dp = DpIdle
    /\ cp = CpIdle

PostAnalyzeFile ==
    /\ api.pc = "serving"
    /\ \E file \in Uploads, project_id \in ProjectIds, analysis \in AnalysisOutcomes :
         LET done == analyze_file_endpoint(file, project_id, analysis, api.files,
                                           api.analysis_counter)
         IN  api' = [ api EXCEPT
                        !.files = done.files,
                        !.analysis_counter = done.analysis_counter,
                        !.call = [ name |-> "analyze_file_endpoint", file |-> file,
                                   project_id |-> project_id, request |-> NoRequest,
                                   file_path |-> "", analysis |-> done.analysis ],
                        !.response = done.response ]
    /\ UNCHANGED <<qa, td, sd, rt, dp, cp>>

PostAnalyzeContent ==
    /\ api.pc = "serving"
    /\ \E request \in FileAnalysisRequests, analysis \in AnalysisOutcomes :
         LET done == analyze_content_endpoint(request, analysis, api.files)
         IN  api' = [ api EXCEPT
                        !.call = [ name |-> "analyze_content_endpoint", file |-> NoUpload,
                                   project_id |-> None, request |-> request,
                                   file_path |-> "", analysis |-> done.analysis ],
                        !.response = done.response ]
    /\ UNCHANGED <<qa, td, sd, rt, dp, cp>>

GetAnalyzeByPath ==
    /\ api.pc = "serving"
    /\ \E file_path \in Paths, analysis \in AnalysisOutcomes :
         LET done == analyze_file_by_path(file_path, analysis, api.files)
         IN  api' = [ api EXCEPT
                        !.call = [ name |-> "analyze_file_by_path", file |-> NoUpload,
                                   project_id |-> None, request |-> NoRequest,
                                   file_path |-> file_path, analysis |-> done.analysis ],
                        !.response = done.response ]
    /\ UNCHANGED <<qa, td, sd, rt, dp, cp>>

SpecAnalyze == AnalyzeInit /\ [][PostAnalyzeFile \/ PostAnalyzeContent \/ GetAnalyzeByPath]_vars

\* C26: an error status an analysis endpoint raises on purpose reaches the
\* client unchanged: an upload with an unsupported extension is answered with
\* 400, a content or path request naming a missing file with 404, a content
\* request with neither file_path nor content with 400, and 500 is answered
\* only when the analysis itself failed
C26_DeliberateStatusReachesClient ==
    /\ (api.call.name = "analyze_file_endpoint"
          /\ lower(splitext(api.call.file.filename)) \notin SUPPORTED_EXTENSIONS)
       => api.response.status_code = 400
    /\ (api.call.name = "analyze_content_endpoint"
          /\ TruthyStr(api.call.request.file_path)
          /\ api.call.request.file_path[1] \notin api.files)
       => api.response.status_code = 404
    /\ (api.call.name = "analyze_file_by_path" /\ api.call.file_path \notin api.files)
       => api.response.status_code = 404
    /\ (api.call.name = "analyze_content_endpoint"
          /\ ~TruthyStr(api.call.request.file_path)
          /\ ~TruthyStr(api.call.request.content))
       => api.response.status_code = 400
    /\ (api.pc = "serving" /\ api.response.status_code = 500)
       => api.call.analysis.kind = "raised"

\* C27: an upload of a supported file with a non-zero project_id is answered
\* with success and the report as data whenever the same upload without
\* project_id is, and the temporary copy is gone when the response is returned
C27_ProjectIdKeepsTheAnswer ==
    (api.call.name = "analyze_file_endpoint" /\ api.call.analysis.kind = "returned")
    => /\ api.response = AnalysisResponse(api.call.analysis.report)
       /\ \A path \in api.files : path \in Paths

(***************************************************************************)
(* The HTTP API: users and projects (backend/app/main.py, app/auth.py)     *)
(***************************************************************************)
\* USERS_DB = {} and PROJECTS_DB = {}
EmptyDict == [key \in {} |-> key]

\* UserRole
UserRole == {"developer", "team_lead"}

\* pwd_context.hash(password) and pwd_context.verify(plain, hashed)
get_password_hash(password) == [hash_of |-> password]

verify_password(plain_password, hashed_password) == hashed_password.hash_of = plain_password

\* create_access_token(data={"sub": username, "role": role}): a token this
\* server signed; valid is whether the signature verifies and the token has
\* not expired when it is presented
create_access_token(sub, role) == [sub |-> sub, role |-> role]

\* decode_token(token): the payload, or None for a JWTError
decode_token(token, issued) ==
    IF token.valid /\ [sub |-> token.sub, role |-> token.role] \in issued
    THEN Some([sub |-> token.sub, role |-> token.role])
    ELSE None

\* what a handler answers: a status and the body (a list of models)
Answer(status_code, body) == [status_code |-> status_code, body |-> body]

\* get_current_user(credentials): the user, or the 401 that is raised
get_current_user(token, issued, users) ==
    LET payload == decode_token(token, issued)
    IN  IF payload = None THEN [user |-> None, raised |-> Answer(401, <<>>)]
        ELSE IF payload[1].sub \notin DOMAIN users
        THEN [user |-> None, raised |-> Answer(401, <<>>)]
        ELSE [user |-> Some(users[payload[1].sub].user), raised |-> Answer(0, <<>>)]

\* register_user(user_data)
register_user(user_data, users, counter) ==
    IF user_data.username \in DOMAIN users
    THEN [response |-> Answer(400, <<>>), USERS_DB |-> users, user_counter |-> counter]
    ELSE LET new_user == [ id |-> counter, username |-> user_data.username,
                           role |-> user_data.role, is_active |-> TRUE ]
         IN  [ response |-> Answer(200, <<new_user>>),
               USERS_DB |-> (user_data.username :>
                                [ user |-> new_user,
                                  password_hash |-> get_password_hash(user_data.password) ])
                            @@ users,
               user_counter |-> counter + 1 ]

\* login_user(credentials)
login_user(credentials, users, issued) ==
    IF \/ credentials.username \notin DOMAIN users
       \/ ~verify_password(credentials.password, users[credentials.username].password_hash)
    THEN [response |-> Answer(401, <<>>), issued |-> issued]
    ELSE IF ~users[credentials.username].user.is_active
    THEN [response |-> Answer(403, <<>>), issued |-> issued]
    ELSE LET access_token == create_access_token(credentials.username,
                                                 users[credentials.username].user.role)
         IN  [ response |-> Answer(200, <<access_token>>),
               issued |-> issued \cup {access_token} ]

\* create_project without its role check
create_project_NoRoleCheck(project_data, current_user, projects, counter) ==
    LET new_project == [ id |-> counter, name |-> project_data.name,
                         owner_id |-> current_user.id ]
    IN  [ response |-> Answer(200, <<new_project>>),
          PROJECTS_DB |-> (counter :> new_project) @@ projects,
          project_counter |-> counter + 1 ]

\* create_project(project_data, current_user)
create_project(project_data, current_user, projects, counter) ==
    IF current_user.role # "team_lead"
    THEN [ response |-> Answer(403, <<>>), PROJECTS_DB |-> projects,
           project_counter |-> counter ]
    ELSE LET new_project == [ id |-> counter, name |-> project_data.name,
                              owner_id |-> current_user.id ]
         IN  [ response |-> Answer(200, <<new_project>>),
               PROJECTS_DB |-> (counter :> new_project) @@ projects,
               project_counter |-> counter + 1 ]

\* list(PROJECTS_DB.values()): the projects in the order they were stored,
\* which is the order of their keys
RECURSIVE Values(_, _)
Values(projects, keys) ==
    IF keys = {} THEN <<>>
    ELSE LET first == CHOOSE k \in keys : \A other \in keys : k <= other
         IN  <<projects[first]>> \o Values(projects, keys \ {first})

\* list_projects(current_user)
list_projects(current_user, projects) ==
    IF current_user.role = "team_lead"
    THEN Answer(200, Values(projects, DOMAIN projects))
    ELSE Answer(200, SelectSeq(Values(projects, DOMAIN projects),
                               LAMBDA p : p.owner_id = current_user.id))

\* get_project(project_id, current_user)
get_project(project_id, current_user, projects) ==
    IF project_id \notin DOMAIN projects THEN Answer(404, <<>>)
    ELSE IF current_user.role # "team_lead" /\ projects[project_id].owner_id # current_user.id
    THEN Answer(403, <<>>)
    ELSE Answer(200, <<projects[project_id]>>)

\* the requests that are sent
Usernames == {"alice", "bob"}

UserCreates == [username : Usernames, password : {"secret"}, role : UserRole]

UserLogins == [username : Usernames, password : {"secret", "guess"}]

ProjectCreates == [name : {"web"}]

\* the projects that are created before the store is taken as full
MaxProjects == 2

\* the bearer tokens a client can present: one this server issued, presented
\* in time or too late, or one it never signed
BearerTokens(issued) ==
    {[sub |-> t.sub, role |-> t.role, valid |-> valid] : t \in issued, valid \in BOOLEAN}
    \cup {[sub |-> "alice", role |-> "team_lead", valid |-> FALSE]}

NoToken == [sub |-> "", role |-> "", valid |-> FALSE]

ApiCall(name, token, username, project_id) ==
    [name |-> name, token |-> token, username |-> username, project_id |-> project_id]

\* the server after start-up: empty stores, the counters at 1
ProjectsInit ==
    /\ api = [ pc |-> "serving", USERS_DB |-> EmptyDict, user_counter |-> 1,
               PROJECTS_DB |-> EmptyDict, project_counter |-> 1, issued |-> {},
               call |-> ApiCall("", NoToken, "", 0), response |-> Answer(0, <<>>) ]
    /\ qa = QaIdle
    /\ td = TdIdle
    /\ sd = SdIdle
    /\ rt = RtIdle
    /\ dp = DpIdle
    /\ cp = CpIdle

PostRegister ==
    /\ api.pc = "serving"
    /\ \E user_data \in UserCreates :
         LET done == register_user(user_data, api.USERS_DB, api.user_counter)
         IN  api' = [ api EXCEPT !.USERS_DB = done.USERS_DB,
                                 !.user_counter = done.user_counter,
                                 !.call = ApiCall("register_user", NoToken,
                                                  user_data.username, 0),
                                 !.response = done.response ]
    /\ UNCHANGED <<qa, td, sd, rt, dp, cp>>

PostLogin ==
    /\ api.pc = "serving"
    /\ \E credentials \in UserLogins :
         LET done == login_user(credentials, api.USERS_DB, api.issued)
         IN  api' = [ api EXCEPT !.issued = done.issued,
                                 !.call = ApiCall("login_user", NoToken,
                                                  credentials.username, 0),
                                 !.response = done.response ]
    /\ UNCHANGED <<qa, td, sd, rt, dp, cp>>

PostProject ==
    /\ api.pc = "serving"
    /\ api.project_counter <= MaxProjects
    /\ \E project_data \in ProjectCreates, token \in BearerTokens(api.issued) :
         LET auth == get_current_user(token, api.issued, api.USERS_DB)
             done == IF auth.user = None
                     THEN [ response |-> auth.raised, PROJECTS_DB |-> api.PROJECTS_DB,
                            project_counter |-> api.project_counter ]
                     ELSE create_project(project_data, auth.user[1], api.PROJECTS_DB,
                                         api.project_counter)
         IN  api' = [ api EXCEPT !.PROJECTS_DB = done.PROJECTS_DB,
                                 !.project_counter = done.project_counter,
                                 !.call = ApiCall("create_project", token, "", 0),
                                 !.response = done.response ]
    /\ UNCHANGED <<qa, td, sd, rt, dp, cp>>

GetProjects ==
    /\ api.pc = "serving"
    /\ \E token \in BearerTokens(api.issued) :
         LET auth == get_current_user(token, api.issued, api.USERS_DB)
         IN  api' = [ api EXCEPT !.call = ApiCall("list_projects", token, "", 0),
                                 !.response = IF auth.user = None THEN auth.raised
                                              ELSE list_projects(auth.user[1],
                                                                 api.PROJECTS_DB) ]
    /\ UNCHANGED <<qa, td, sd, rt, dp, cp>>

GetProject ==
    /\ api.pc = "serving"
    /\ \E project_id \in 1..(MaxProjects + 1), token \in BearerTokens(api.issued) :
         LET auth == get_current_user(token, api.issued, api.USERS_DB)
         IN  api' = [ api EXCEPT !.call = ApiCall("get_project", token, "", project_id),
                                 !.response = IF auth.user = None THEN auth.raised
                                              ELSE get_project(project_id, auth.user[1],
                                                               api.PROJECTS_DB) ]
    /\ UNCHANGED <<qa, td, sd, rt, dp, cp>>

SpecProjects ==
    ProjectsInit
    /\ [][PostRegister \/ PostLogin \/ PostProject \/ GetProjects \/ GetProject]_vars

\* the user a stored token resolves to in the user store, if any
CallerOf(call, state) == get_current_user(call.token, state.issued, state.USERS_DB).user

\* every stored project is owned by a registered team lead and stored under
\* its own id, so no two stored projects share an id
ProjectsOwnedByTeamLeads ==
    \A key \in DOMAIN api.PROJECTS_DB :
        /\ \E username \in DOMAIN api.USERS_DB :
               /\ api.USERS_DB[username].user.id = api.PROJECTS_DB[key].owner_id
               /\ api.USERS_DB[username].user.role = "team_lead"
        /\ \A other \in DOMAIN api.PROJECTS_DB :
               api.PROJECTS_DB[other].id = api.PROJECTS_DB[key].id => other = key

\* a step that serves create_project for a developer answers 403 and keeps
\* the project store and the project counter
DeveloperCreateIsRefused ==
    (/\ api'.call.name = "create_project"
     /\ CallerOf(api'.call, api) # None
     /\ CallerOf(api'.call, api)[1].role = "developer")
    => /\ api'.response.status_code = 403
       /\ api'.PROJECTS_DB = api.PROJECTS_DB
       /\ api'.project_counter = api.project_counter

\* get_project answers a developer with a project only if the developer owns it
DeveloperGetsOwnProjectOnly ==
    (/\ api.call.name = "get_project"
     /\ api.response.status_code = 200
     /\ CallerOf(api.call, api) # None
     /\ CallerOf(api.call, api)[1].role = "developer")
    => api.response.body[1].owner_id = CallerOf(api.call, api)[1].id

\* C28: after any sequence of register, login and project requests every
\* stored project was created by a team lead and project ids are unique; a
\* create_project request by a developer is answered with 403 and leaves the
\* project store and the project counter unchanged; get_project returns a
\* project to a developer only if that developer owns it
C28_ProjectsBelongToTeamLeads ==
    /\ [](ProjectsOwnedByTeamLeads /\ DeveloperGetsOwnProjectOnly)
    /\ [][DeveloperCreateIsRefused]_vars

\* a developer's create_project was refused while a team lead's project is stored
C28_Witness ==
    /\ api.pc = "serving"
    /\ api.call.name = "create_project"
    /\ CallerOf(api.call, api) # None
    /\ CallerOf(api.call, api)[1].role = "developer"
    /\ api.response.status_code = 403
    /\ DOMAIN api.PROJECTS_DB = {1}
    /\ api.project_counter = 2

====
